---------------------------- MODULE Spec2Model ----------------------------
(***************************************************************************)
(* Comic-Encoder: the `compile` action (src/actions/compile.rs), the       *)
(* single-directory `encode_one` action (src/actions/encode_one.rs) and    *)
(* the archive writer `build_volume` (src/lib/build_vol.rs), as a state    *)
(* machine over a small file system.                                       *)
(*                                                                         *)
(* A file name is a sequence of one-character strings, so that             *)
(* Path::with_extension, the {:0w$} number formatting and the comparators  *)
(* are computed on characters as the code computes them.                   *)
(***************************************************************************)
EXTENDS Integers, Sequences, FiniteSets, TLC

(***************************************************************************)
(* Bounds of the model.                                                    *)
(***************************************************************************)
MaxChapters == 4      \* chapter directories in the input directory: 0..MaxChapters
MaxK == 3             \* chapters_per_volume: 0..MaxK
MaxRange == 5         \* --start-chapter / --end-chapter: absent or 0..MaxRange
MaxPages == 2         \* image files of one chapter directory: 0..MaxPages
PublishMaxChapters == 2   \* chapter directories of the runs into a used output directory
PublishMaxK == 2          \* chapters_per_volume of those runs: 1..PublishMaxK
CmpMaxLen == 2        \* characters of the strings given to the comparators: 0..CmpMaxLen
WidthMaxCount == 11       \* chapter directories and pictures of the width computations
WidthMaxK == 3            \* chapters_per_volume of the width computations: 1..WidthMaxK
RoundTripMaxChapters == 2 \* chapter directories of the runs whose archive is decoded
RoundTripMaxPages == 11   \* pictures of a chapter directory of those runs
InPlaceMaxK == 2          \* chapters_per_volume of the runs into their input directory
ResumeMaxChapters == 2    \* chapter directories of the runs that are interrupted and run again
DecodeMaxPages == 10      \* pictures of a comic given to decode
RebuildMaxPages == 2      \* pictures of the comic given to rebuild
RebuildMaxInterrupts == 2 \* interruptions of a rebuild
RebuildDirMaxPages == 2   \* pictures of each comic of a directory given to rebuild
EncodeMaxChapters == 3    \* chapter directories given to encode (src/cli/encode.rs)
EncodeMaxK == 2           \* chapters per volume of its Compile method: 0..EncodeMaxK
EncodeMaxRange == 4       \* its start and end chapters: absent or 0..EncodeMaxRange

\* Option<T>: None is the empty sequence, Some(x) the sequence of x alone
None == <<>>
Some(x) == <<x>>
IsSome(opt) == opt # <<>>
Unwrap(opt) == opt[1]
unwrap_or(opt, default) == IF opt = <<>> THEN default ELSE opt[1]

(***************************************************************************)
(* Characters and strings.                                                 *)
(***************************************************************************)
Digits == <<"0", "1", "2", "3", "4", "5", "6", "7", "8", "9">>

\* The characters the model's names are made of, in code point order.
Alphabet ==
  <<" ", "'", "(", ")", "-", ".">> \o Digits \o <<"A", "B", "C", "F", "P", "V", "_">> \o
  <<"a", "b", "c", "d", "e", "f", "g", "h", "i", "j", "k", "l", "m",
    "n", "o", "p", "q", "r", "s", "t", "u", "v", "w", "x", "y", "z">>

Code(ch) == CHOOSE i \in 1..Len(Alphabet) : Alphabet[i] = ch

is_ascii_digit(ch) == \E i \in 1..10 : Digits[i] = ch

DigitVal(ch) == (CHOOSE i \in 1..10 : Digits[i] = ch) - 1

\* usize::to_string
RECURSIVE to_string(_)
to_string(n) ==
  IF n < 10 THEN <<Digits[n + 1]>>
  ELSE to_string(n \div 10) \o <<Digits[(n % 10) + 1]>>

RECURSIVE Zeros(_)
Zeros(n) == IF n <= 0 THEN <<>> ELSE <<"0">> \o Zeros(n - 1)

\* A number written without padding
FormatUnpadded(n, width) == to_string(n)

\* format!("{:0width$}", n): zero-padded on the left, never truncated
FormatPadded(n, width) ==
  LET s == to_string(n) IN Zeros(width - Len(s)) \o s

\* Position of the last "." of a name, 0 when it has none
LastDot(name) ==
  LET dots == {i \in 1..Len(name) : name[i] = "."}
  IN IF dots = {} THEN 0 ELSE CHOOSE i \in dots : \A j \in dots : j <= i

\* Path::file_stem on a file name: the whole name when it has no "." or only
\* a leading one, else the part before the last "."
file_stem(name) ==
  IF LastDot(name) <= 1 THEN name ELSE SubSeq(name, 1, LastDot(name) - 1)

\* Path::with_extension on a file name: the stem, then "." and the extension
\* when the extension is not empty
with_extension(name, ext) ==
  IF ext = <<>> THEN file_stem(name) ELSE file_stem(name) \o <<".">> \o ext

Ext_cbz == <<"c", "b", "z">>
Ext_partial == <<".", "c", "o", "m", "i", "c", "-", "e", "n", "c", "-", "p", "a", "r", "t", "i", "a", "l">>
Ext_png == <<"p", "n", "g">>

(***************************************************************************)
(* ceil_div (src/lib/calc.rs)                                              *)
(***************************************************************************)
ceil_div(num, divider) ==
  (num \div divider) + (IF num % divider # 0 THEN 1 ELSE 0)

(***************************************************************************)
(* Comparators (src/lib/natsort.rs, src/lib/readdir.rs)                    *)
(***************************************************************************)
OrdOf(a, b) == IF a < b THEN "Less" ELSE IF a > b THEN "Greater" ELSE "Equal"

\* take_num: the digits of the leading digit run without its leading zeros
\* (digits), and what follows the run (rest)
RECURSIVE take_num_from(_, _)
take_num_from(chars, digits) ==
  IF chars # <<>> /\ is_ascii_digit(chars[1])
  THEN take_num_from(Tail(chars),
                     IF DigitVal(chars[1]) # 0 \/ Len(digits) # 0
                     THEN Append(digits, DigitVal(chars[1])) ELSE digits)
  ELSE [digits |-> digits, rest |-> chars]

take_num(chars) == take_num_from(chars, <<>>)

\* The zip of the two digit vectors, compared pair by pair
RECURSIVE CmpDigits(_, _)
CmpDigits(l, r) ==
  IF l = <<>> \/ r = <<>> THEN "Equal"
  ELSE IF l[1] # r[1] THEN OrdOf(l[1], r[1])
  ELSE CmpDigits(Tail(l), Tail(r))

\* A comparison in which a string that has characters left is Less than one
\* that has none
RECURSIVE natural_cmp_short_last(_, _)
natural_cmp_short_last(left, right) ==
  IF left # <<>> /\ right # <<>>
  THEN IF is_ascii_digit(left[1]) /\ is_ascii_digit(right[1])
       THEN LET lnum == take_num(left).digits
                rnum == take_num(right).digits
            IN IF Len(lnum) # Len(rnum) THEN OrdOf(Len(lnum), Len(rnum))
               ELSE CmpDigits(lnum, rnum)
       ELSE IF left[1] = right[1] THEN natural_cmp_short_last(Tail(left), Tail(right))
            ELSE OrdOf(Code(left[1]), Code(right[1]))
  ELSE IF left # <<>> THEN "Less"
  ELSE IF right # <<>> THEN "Less"
  ELSE "Equal"

\* natural_cmp of src/lib/natsort.rs: once both sides start with a digit the
\* two numbers decide, and the match arm's value is returned
RECURSIVE natural_cmp(_, _)
natural_cmp(left, right) ==
  IF left # <<>> /\ right # <<>>
  THEN IF is_ascii_digit(left[1]) /\ is_ascii_digit(right[1])
       THEN LET lnum == take_num(left).digits
                rnum == take_num(right).digits
            IN IF Len(lnum) # Len(rnum) THEN OrdOf(Len(lnum), Len(rnum))
               ELSE CmpDigits(lnum, rnum)
       ELSE IF left[1] = right[1] THEN natural_cmp(Tail(left), Tail(right))
            ELSE OrdOf(Code(left[1]), Code(right[1]))
  ELSE IF left # <<>> THEN "Greater"
  ELSE IF right # <<>> THEN "Less"
  ELSE "Equal"

\* str::to_lowercase on the characters of the alphabet
LowerOf(ch) ==
  CASE ch = "A" -> "a" [] ch = "B" -> "b" [] ch = "C" -> "c"
    [] ch = "F" -> "f" [] ch = "P" -> "p" [] ch = "V" -> "v"
    [] OTHER -> ch

to_lowercase(str) == [i \in 1..Len(str) |-> LowerOf(str[i])]

\* natural_cmp of src/lib.rs: the same loop over the lowercased strings
lib_natural_cmp(left, right) == natural_cmp(to_lowercase(left), to_lowercase(right))

\* natural_paths_cmp on two entries of one directory: the leading components
\* are the same path and compare Equal, the file names decide
natural_paths_cmp(a, b) == natural_cmp(a, b)

\* PathBuf::cmp on two entries of one directory: the file names, by code point
RECURSIVE path_cmp(_, _)
path_cmp(a, b) ==
  IF a # <<>> /\ b # <<>>
  THEN IF a[1] = b[1] THEN path_cmp(Tail(a), Tail(b))
       ELSE OrdOf(Code(a[1]), Code(b[1]))
  ELSE IF a # <<>> THEN "Greater"
  ELSE IF b # <<>> THEN "Less"
  ELSE "Equal"

sort_cmp(simple_sorting, a, b) ==
  IF simple_sorting THEN path_cmp(a, b) ELSE natural_paths_cmp(a, b)

\* The orders a sort of the directory listing `names` can give. read_dir
\* returns the entries in no specified order and the sort is stable, so any
\* arrangement with no pair out of order is a possible outcome.
\* They are built from the front: a name can come first when no other name
\* would be out of order behind it.
RECURSIVE OrdersOf(_, _)
OrdersOf(S, simple_sorting) ==
  IF S = {} THEN {<<>>}
  ELSE UNION {{<<x>> \o t : t \in OrdersOf(S \ {x}, simple_sorting)} :
              x \in {y \in S : \A z \in S : sort_cmp(simple_sorting, y, z) # "Greater"}}

SortedOrders(names, simple_sorting) ==
  OrdersOf({names[i] : i \in 1..Len(names)}, simple_sorting)

(***************************************************************************)
(* has_image_ext (src/lib/images.rs)                                       *)
(***************************************************************************)
\* Path::extension on a file name: what follows the last ".", empty when the
\* name has no extension
extension(name) ==
  IF LastDot(name) <= 1 THEN <<>> ELSE SubSeq(name, LastDot(name) + 1, Len(name))

CommonImageExts == {<<"j", "p", "g">>, <<"j", "p", "e", "g">>, Ext_png, <<"b", "m", "p">>}

ExtendedImageExts == {<<"t", "i", "f">>, <<"g", "i", "f">>, <<"w", "e", "b", "p">>}

has_image_ext(name, extended) ==
  \/ extension(name) \in CommonImageExts
  \/ extension(name) \in ExtendedImageExts /\ extended

(***************************************************************************)
(* The input directory: chapter directories and their files, in the order  *)
(* read_dir lists them.                                                    *)
(***************************************************************************)
ChapterCatalogue ==
  << <<"c", "1", "0">>, <<"c", "1", ".", "5">>, <<"c", "2">>, <<"c", "1">>,
     <<"c", "3">>, <<"c", "2", "0">> >>

PageCatalogue ==
  << <<"p", "1", "0", ".", "p", "n", "g">>, <<"p", "2", ".", "p", "n", "g">>,
     <<"p", "1", ".", "g", "i", "f">>, <<"p", "3", ".", "j", "p", "g">> >>

NotAnImage == <<"n", "o", "t", "e", "s", ".", "t", "x", "t">>

Min(a, b) == IF a < b THEN a ELSE b

\* The first n chapter directories of the catalogue
ChapterDirs(n) == SubSeq(ChapterCatalogue, 1, Min(n, Len(ChapterCatalogue)))

\* The files of the i-th chapter directory: i mod (MaxPages + 1) pictures and a
\* text file
ChapterFiles(i) ==
  SubSeq(PageCatalogue, 1, Min(i % (MaxPages + 1), Len(PageCatalogue))) \o <<NotAnImage>>

(***************************************************************************)
(* Names computed by build_volume (src/lib/build_vol.rs)                   *)
(***************************************************************************)
S_Volume == <<"V", "o", "l", "u", "m", "e", "-">>
S_Vol == <<"V", "o", "l", "_">>
S_Chapter == <<"_", "C", "h", "a", "p", "t", "e", "r", "_">>
S_Pic == <<"_", "P", "i", "c", "_">>
S_pages == <<" ", "p", "a", "g", "e", "s", ")", ".", "c", "b", "z">>
Quote == <<"'">>

\* The file name of the volume, without extension (lines 32-53). In Each mode
\* the caller has checked that there is exactly one chapter.
output_path_without_ext(o, output, volume, vol_num_len, chapter_num_len, start_chapter, chapters) ==
  CASE o.method = "Ranges" ->
         IF ~o.append_chapters_range \/ Len(chapters) = 0
         THEN S_Volume \o FormatPadded(volume, vol_num_len)
         ELSE S_Volume \o FormatPadded(volume, vol_num_len) \o <<" ", "(", "c">>
              \o FormatPadded(start_chapter, chapter_num_len) \o <<"-", "c">>
              \o FormatPadded(start_chapter + Len(chapters) - 1, chapter_num_len)
              \o <<")">>
    [] o.method = "Each" -> chapters[1].name
    [] o.method = "Single" -> with_extension(output, <<>>)

\* An archive written straight to the path without extension
staging_path_in_place(noext) == noext

\* The staging path (line 71)
staging_path_of(noext) == with_extension(noext, Ext_partial)

\* The final path (lines 247-260)
complete_path_of(o, noext, pics_counter) ==
  LET complete_path == with_extension(noext, Ext_cbz)
  IN IF o.append_pages_count
     THEN with_extension(complete_path, <<>>) \o <<" ", "(">> \o to_string(pics_counter) \o S_pages
     ELSE complete_path

\* display_name_individual (lines 88-101), for the one chapter of an Each volume
display_name_individual(o, name) ==
  IF o.display_full_names \/ Len(name) <= 50
  THEN Quote \o name \o Quote
  ELSE Quote \o SubSeq(name, 1, 50) \o <<".", ".", ".">> \o Quote

\* volume_display_name (lines 103-108)
volume_display_name(o, noext, volume, vol_num_len, chapters) ==
  CASE o.method = "Ranges" -> FormatPadded(volume, vol_num_len)
    [] o.method = "Each" -> Quote \o display_name_individual(o, chapters[1].name) \o Quote
    [] o.method = "Single" -> Quote \o noext \o Quote

\* zip_dir_name (lines 160-168): the chapter's directory inside the archive
zip_dir_name(o, volume, vol_num_len, chapter_num_len, chapter, chapters) ==
  IF o.method = "Each" THEN chapters[1].name
  ELSE S_Vol \o FormatPadded(volume, vol_num_len) \o S_Chapter
       \o FormatPadded(chapter, chapter_num_len)

\* name_in_zip (lines 182-206): the page's file name inside the archive
name_in_zip(o, noext, volume, vol_num_len, chapter_num_len, chapter, chapters, page_nb, pic_num_len, file) ==
  IF o.method = "Each"
  THEN volume_display_name(o, noext, volume, vol_num_len, chapters) \o S_Pic
       \o FormatPadded(page_nb, pic_num_len) \o <<".">> \o extension(file)
  ELSE S_Vol \o FormatPadded(volume, vol_num_len) \o S_Chapter
       \o FormatPadded(chapter, chapter_num_len) \o S_Pic
       \o FormatPadded(page_nb, pic_num_len) \o <<".">> \o extension(file)

(***************************************************************************)
(* The file system of the output directory: a function from the names that *)
(* exist to what they are. `origin` tells a file that was there before the *)
(* run from one the run wrote; an archive holds its entries and whether    *)
(* ZipWriter::finish has closed it.                                        *)
(***************************************************************************)
Exists(f, p) == p \in DOMAIN f

IsDir(f, p) == p \in DOMAIN f /\ f[p].kind = "dir"

Put(f, p, v) == [q \in (DOMAIN f) \cup {p} |-> IF q = p THEN v ELSE f[q]]

Remove(f, p) == [q \in (DOMAIN f) \ {p} |-> f[q]]

EmptyFs == [q \in {} |-> 0]

PreFile == [kind |-> "file", origin |-> "pre", entries |-> <<>>, finished |-> TRUE]

PreDir == [kind |-> "dir", origin |-> "pre", entries |-> <<>>, finished |-> FALSE]

NewArchive == [kind |-> "file", origin |-> "run", entries |-> <<>>, finished |-> FALSE]

\* fs::rename(from, to) of a regular file: fails onto a directory, else replaces
CanRename(f, from, to) == Exists(f, from) /\ ~IsDir(f, to)

\* A rename that leaves the source in place
Rename_keeping_source(f, from, to) == Put(f, to, f[from])

Rename(f, from, to) == Remove(Put(f, to, f[from]), from)

(***************************************************************************)
(* usize arithmetic. A subtraction below zero panics when the build checks *)
(* overflow (debug) and wraps otherwise (release). The wrap is taken       *)
(* modulo 2^30 instead of 2^64, TLC's integers being 32 bits wide: every   *)
(* count of the model is far below either.                                 *)
(***************************************************************************)
UsizeModulus == 2^30

Underflows(a, b) == a < b

wrapping_sub(a, b) == IF a < b THEN a - b + UsizeModulus ELSE a - b

(***************************************************************************)
(* compile (src/actions/compile.rs)                                        *)
(***************************************************************************)
\* chap_per_vol (lines 14-18)
chap_per_vol(o) == IF o.method = "Ranges" THEN o.chapters_per_volume ELSE 1

\* The configuration checks without the comparison of start and end
ConfigError_without_order(o) ==
  IF chap_per_vol(o) = 0 THEN "AtLeast1ChapterPerVolume"
  ELSE IF IsSome(o.start_chapter) /\ Unwrap(o.start_chapter) = 0 THEN "InvalidStartChapter"
  ELSE IF IsSome(o.end_chapter) /\ Unwrap(o.end_chapter) = 0 THEN "InvalidEndChapter"
  ELSE "none"

\* The configuration checks (lines 20-40): the error returned, or "none"
ConfigError(o) ==
  IF chap_per_vol(o) = 0 THEN "AtLeast1ChapterPerVolume"
  ELSE IF IsSome(o.start_chapter) /\ Unwrap(o.start_chapter) = 0 THEN "InvalidStartChapter"
  ELSE IF IsSome(o.end_chapter) /\ Unwrap(o.end_chapter) = 0 THEN "InvalidEndChapter"
  ELSE IF IsSome(o.start_chapter) /\ IsSome(o.end_chapter)
          /\ Unwrap(o.end_chapter) < Unwrap(o.start_chapter)
       THEN "StartChapterCannotBeHigherThanEndChapter"
  ELSE "none"

\* The directories kept by the name prefix filter (lines 89-97)
RECURSIVE FilterSeq(_, _)
FilterSeq(seq, keep) ==
  IF seq = <<>> THEN <<>>
  ELSE (IF seq[1] \in keep THEN <<seq[1]>> ELSE <<>>) \o FilterSeq(Tail(seq), keep)

starts_with(name, prefix) ==
  Len(prefix) <= Len(name) /\ SubSeq(name, 1, Len(prefix)) = prefix

KeptDirs(o, entries) ==
  FilterSeq(entries, {e \in {entries[i] : i \in 1..Len(entries)} :
                        o.dirs_prefix = None \/ starts_with(e, Unwrap(o.dirs_prefix))})

\* The clamp of the end chapter (line 134)
clamp_end_chapter(end_chapter, total, start_chapter) ==
  Min(end_chapter, wrapping_sub(total, start_chapter))

\* A range resolution whose widths are those of the selected chapters
ResolveRange_trimmed_widths(o, total, overflow_checks) ==
  LET start_chapter == unwrap_or(o.start_chapter, 1) - 1
      end_chapter0 == unwrap_or(o.end_chapter, total)
      end_chapter == clamp_end_chapter(end_chapter0, total, start_chapter)
      chapter_len == wrapping_sub(end_chapter, start_chapter)
  IN IF overflow_checks /\ Underflows(total, start_chapter) THEN [outcome |-> "panic"]
     ELSE IF end_chapter = 0 THEN [outcome |-> "empty"]
     ELSE IF overflow_checks /\ Underflows(end_chapter, start_chapter) THEN [outcome |-> "panic"]
     ELSE [outcome |-> "plan",
           start_chapter |-> start_chapter,
           end_chapter |-> end_chapter,
           chapter_len |-> chapter_len,
           volumes |-> ceil_div(chapter_len, chap_per_vol(o)),
           vol_num_len |-> Len(to_string(ceil_div(chapter_len, chap_per_vol(o)))),
           chapter_num_len |-> Len(to_string(chapter_len))]

\* Range resolution (lines 121-145) over `total` discovered directories:
\* a panic, the early return with no volume, or the plan of the run
ResolveRange(o, total, overflow_checks) ==
  LET start_chapter == unwrap_or(o.start_chapter, 1) - 1
      end_chapter0 == unwrap_or(o.end_chapter, total)
      end_chapter == clamp_end_chapter(end_chapter0, total, start_chapter)
      chapter_len == wrapping_sub(end_chapter, start_chapter)
  IN IF overflow_checks /\ Underflows(total, start_chapter) THEN [outcome |-> "panic"]
     ELSE IF end_chapter = 0 THEN [outcome |-> "empty"]
     ELSE IF overflow_checks /\ Underflows(end_chapter, start_chapter) THEN [outcome |-> "panic"]
     ELSE [outcome |-> "plan",
           start_chapter |-> start_chapter,
           end_chapter |-> end_chapter,
           chapter_len |-> chapter_len,
           volumes |-> ceil_div(chapter_len, chap_per_vol(o)),
           vol_num_len |-> Len(to_string(ceil_div(total, chap_per_vol(o)))),
           chapter_num_len |-> Len(to_string(total))]

\* Whether the volume is built once it holds this many chapters (line 181)
VolumeIsFull(o, volume_chapters) == Len(volume_chapters) = chap_per_vol(o)

\* Whether a last volume is built after the loop (line 200)
BuildsLastVolume(volume_chapters) == volume_chapters = <<>>

(***************************************************************************)
(* build_volume (src/lib/build_vol.rs), its decisions as operators         *)
(***************************************************************************)
Err(e) == [kind |-> "Err", err |-> e, path |-> <<>>]

Ok(p) == [kind |-> "Ok", err |-> "none", path |-> p]

Panic == [kind |-> "Panic", err |-> "none", path |-> <<>>]

Pending == [kind |-> "Pending", err |-> "none", path |-> <<>>]

\* Lines 32-81 on the file system f: the assertion of Each mode, the
\* skip-existing return, the check of the staging path and its creation
begin_volume(o, f, fr) ==
  IF o.method = "Each" /\ Len(fr.chapters) # 1
  THEN [fs |-> f, noext |-> <<>>, result |-> Panic]
  ELSE LET noext == output_path_without_ext(o, fr.output, fr.volume, fr.vol_num_len,
                                            fr.chapter_num_len, fr.start_chapter, fr.chapters)
           staging_path == staging_path_of(noext)
       IN IF o.method = "Each" /\ o.skip_existing /\ Exists(f, with_extension(noext, Ext_cbz))
          THEN [fs |-> f, noext |-> noext, result |-> Ok(with_extension(noext, Ext_cbz))]
          ELSE IF Exists(f, staging_path) /\ ~o.overwrite
          THEN [fs |-> f, noext |-> noext, result |-> Err("OutputVolumeFileAlreadyExists")]
          ELSE IF IsDir(f, staging_path)
          THEN [fs |-> f, noext |-> noext, result |-> Err("FailedToCreateVolumeFile")]
          ELSE [fs |-> Put(f, staging_path, NewArchive), noext |-> noext, result |-> Pending]

\* The pictures of a chapter directory as read_dir lists them
chapter_pics_unsorted(o, files) ==
  {FilterSeq(files, {x \in {files[i] : i \in 1..Len(files)} :
                       has_image_ext(x, o.accept_extended_image_formats)})}

\* The pictures of a chapter directory (lines 126-155): the files with an
\* image extension, in one of the orders the sort can give
chapter_pics_of(o, files) ==
  SortedOrders(FilterSeq(files, {x \in {files[i] : i \in 1..Len(files)} :
                                   has_image_ext(x, o.accept_extended_image_formats)}),
               o.simple_sorting)

\* pic_num_len (line 178): the digits of the number of pictures of the chapter
pic_num_len(chapter_pics_len) == Len(to_string(chapter_pics_len))

\* The value build_volume returns on success (line 327)
returned_path(staging_path, complete_path) == staging_path

\* A publication that renames without looking at what is at the final path
publish_volume_unchecked(o, f, staging_path, complete_path) ==
  IF ~CanRename(f, staging_path, complete_path)
  THEN [fs |-> f, result |-> Err("FailedToRenameCompleteArchive")]
  ELSE [fs |-> Rename(f, staging_path, complete_path),
        result |-> Ok(returned_path(staging_path, complete_path))]

\* Lines 262-280 and 327 on the file system f: the check of the final path,
\* the removal of what is there and the rename of the staging file
publish_volume(o, f, staging_path, complete_path) ==
  IF Exists(f, complete_path) /\ ~o.overwrite
  THEN [fs |-> f, result |-> Err("OutputVolumeFileAlreadyExists")]
  ELSE IF Exists(f, complete_path) /\ ~IsDir(f, complete_path)
  THEN [fs |-> f, result |-> Err("OutputVolumeFileIsADirectory")]
  ELSE IF Exists(f, complete_path)
  THEN \* fs::remove_file fails on a directory
       [fs |-> f, result |-> Err("FailedToOverwriteOutputVolumeFile")]
  ELSE IF ~CanRename(f, staging_path, complete_path)
  THEN [fs |-> f, result |-> Err("FailedToRenameCompleteArchive")]
  ELSE [fs |-> Rename(f, staging_path, complete_path),
        result |-> Ok(returned_path(staging_path, complete_path))]

(***************************************************************************)
(* The state                                                               *)
(***************************************************************************)
VARIABLES
  opts,            \* CompilationOptions, EncodingOptions and the method's options
  overflow_checks, \* whether the build panics on integer overflow
  input_kind,      \* the input path: "dir", "file" or "missing"
  input_entries,   \* the chapter directories of the input directory, as read_dir lists them
  chapter_files,   \* the files of each source directory, as read_dir lists them
  output_is_dir,   \* whether the output directory existed when the run started
  output_created,  \* whether the run has created the output directory
  fs,              \* the files of the output directory
  fs0,             \* the files of the output directory when the run started
  pc,              \* where the run is
  c,               \* the local variables of compile
  b,               \* the arguments and local variables of the current build_volume call
  result,          \* what the run returned
  calls,           \* the build_volume calls made so far, with what each returned
  touched,         \* whether the run has accessed the file system
  cmp,             \* the two strings given to the comparators and what each returned
  enc,             \* a call of encode (src/cli/encode.rs): its Config and local variables
  wid,             \* the counts given to the width computations and the widths computed
  dec,             \* a call of decode (src/cli/decode.rs): its Config, locals and output directory
  rb               \* a rebuild (src/cli/rebuild.rs): its Config, its position and its files

\* What a run of compile or encode_one never changes
env == <<opts, overflow_checks, input_kind, input_entries, chapter_files, output_is_dir, fs0,
         cmp, enc, wid, dec, rb>>

\* The state of a run of compile or encode_one
run == <<output_created, fs, pc, c, b, result, calls, touched>>

vars == <<opts, overflow_checks, input_kind, input_entries, chapter_files, output_is_dir,
          output_created, fs, fs0, pc, c, b, result, calls, touched, cmp, enc, wid, dec, rb>>

\* The options, the inputs and the state of a run of compile or encode_one
compile_vars ==
  <<opts, overflow_checks, input_kind, input_entries, chapter_files, output_is_dir, fs0, run>>

Running == [kind |-> "Running", err |-> "none", files |-> <<>>]

RunErr(e) == [kind |-> "Err", err |-> e, files |-> <<>>]

RunOk(files) == [kind |-> "Ok", err |-> "none", files |-> files]

RunPanic == [kind |-> "Panic", err |-> "none", files |-> <<>>]

RunKilled == [kind |-> "Killed", err |-> "none", files |-> <<>>]

CompileLocals ==
  [chapter_dirs |-> <<>>, volume |-> 1, volume_chapters |-> <<>>, volume_start_chapter |-> 1,
   vol_num_len |-> 0, chapter_num_len |-> 0, start_chapter |-> 0, chapter_len |-> 0,
   volumes |-> 0, taken |-> 0, output_files |-> <<>>]

NoFrame ==
  [active |-> FALSE, ret |-> "none", output |-> <<>>, volume |-> 0, volumes |-> 0,
   vol_num_len |-> 0, chapter_num_len |-> 0, start_chapter |-> 0, chapters |-> <<>>,
   noext |-> <<>>, ci |-> 0, in_chapter |-> FALSE, chapter_pics |-> <<>>, pi |-> 0,
   pics_counter |-> 0, fs_at_entry |-> EmptyFs, result |-> Pending]

\* The frame of a build_volume call with the BuildVolumeArgs it is given
Frame(ret, output, volume, volumes, vol_num_len, chapter_num_len, start_chapter, chapters, f) ==
  [NoFrame EXCEPT !.active = TRUE, !.ret = ret, !.output = output, !.volume = volume,
                  !.volumes = volumes, !.vol_num_len = vol_num_len,
                  !.chapter_num_len = chapter_num_len, !.start_chapter = start_chapter,
                  !.chapters = chapters, !.ci = 1, !.fs_at_entry = f]

CallRecord(fr) ==
  [volume |-> fr.volume, start_chapter |-> fr.start_chapter, chapters |-> fr.chapters,
   result |-> Pending]

(***************************************************************************)
(* compile, step by step                                                   *)
(***************************************************************************)
\* Lines 14-40: the configuration is checked before anything else
Validate ==
  /\ pc = "start"
  /\ opts.method \in {"Ranges", "Each"}
  /\ IF ConfigError(opts) # "none"
     THEN pc' = "done" /\ result' = RunErr(ConfigError(opts))
     ELSE pc' = "dirs" /\ UNCHANGED result
  /\ UNCHANGED <<env, output_created, fs, c, b, calls, touched>>

\* Lines 42-145: the input and output directories, the sorted list of chapter
\* directories, the widths and the range of chapters to treat
Discover ==
  /\ pc = "dirs"
  /\ touched' = TRUE
  /\ IF input_kind # "dir"
     THEN /\ pc' = "done" /\ result' = RunErr("ChaptersDirectoryNotFound")
          /\ UNCHANGED <<output_created, c>>
     ELSE IF IsSome(opts.output) /\ ~output_is_dir /\ ~opts.create_output_dir
     THEN /\ pc' = "done" /\ result' = RunErr("OutputDirectoryNotFound")
          /\ UNCHANGED <<output_created, c>>
     ELSE /\ output_created' = (IsSome(opts.output) /\ ~output_is_dir)
          /\ \E chapter_dirs \in SortedOrders(KeptDirs(opts, input_entries), opts.simple_sorting) :
               LET r == ResolveRange(opts, Len(chapter_dirs), overflow_checks)
               IN CASE r.outcome = "panic" ->
                         pc' = "done" /\ result' = RunPanic /\ UNCHANGED c
                    [] r.outcome = "empty" ->
                         pc' = "done" /\ result' = RunOk(<<>>) /\ UNCHANGED c
                    [] r.outcome = "plan" ->
                         /\ pc' = "loop"
                         /\ c' = [CompileLocals EXCEPT
                                    !.chapter_dirs = chapter_dirs,
                                    !.vol_num_len = r.vol_num_len,
                                    !.chapter_num_len = r.chapter_num_len,
                                    !.start_chapter = r.start_chapter,
                                    !.chapter_len = r.chapter_len,
                                    !.volumes = r.volumes]
                         /\ UNCHANGED result
  /\ UNCHANGED <<env, fs, b, calls>>

\* Whether chapter_dirs.into_iter().skip(start_chapter).take(chapter_len) has
\* another item
HasNextChapter ==
  c.taken < c.chapter_len /\ c.start_chapter + c.taken < Len(c.chapter_dirs)

\* The call of build_volume by compile (lines 182-192 and 201-211)
CallBuildVolume(ret, volume_chapters) ==
  LET fr == Frame(ret, <<>>, c.volume, c.volumes, c.vol_num_len, c.chapter_num_len,
                  c.volume_start_chapter, volume_chapters, fs)
  IN /\ b' = fr
     /\ calls' = Append(calls, CallRecord(fr))
     /\ pc' = "bv_begin"

\* Lines 171-197: the next chapter is added to the current volume, which is
\* built when it is full
LoopNext ==
  /\ pc = "loop"
  /\ HasNextChapter
  /\ LET name == c.chapter_dirs[c.start_chapter + c.taken + 1]
         volume_chapters == Append(c.volume_chapters,
                                   [chapter |-> c.taken + 1, path |-> name, name |-> name])
     IN /\ c' = [c EXCEPT !.taken = c.taken + 1, !.volume_chapters = volume_chapters]
        /\ IF VolumeIsFull(opts, volume_chapters)
           THEN CallBuildVolume("loop", volume_chapters)
           ELSE pc' = "loop" /\ UNCHANGED <<b, calls>>
  /\ UNCHANGED <<env, output_created, fs, result, touched>>

\* Lines 199-220: after the loop
LoopEnd ==
  /\ pc = "loop"
  /\ ~HasNextChapter
  /\ IF BuildsLastVolume(c.volume_chapters)
     THEN CallBuildVolume("tail", c.volume_chapters) /\ UNCHANGED result
     ELSE pc' = "done" /\ result' = RunOk(c.output_files) /\ UNCHANGED <<b, calls>>
  /\ UNCHANGED <<env, output_created, fs, c, touched>>

(***************************************************************************)
(* encode_one (src/actions/encode_one.rs)                                  *)
(***************************************************************************)
SingleInput == <<"i", "n">>

EncodeOne ==
  /\ pc = "start"
  /\ opts.method = "Single"
  /\ touched' = TRUE
  /\ IF input_kind = "missing"
     THEN pc' = "done" /\ result' = RunErr("SingleInputDirectoryNotFound") /\ UNCHANGED <<b, calls>>
     ELSE IF input_kind # "dir"
     THEN pc' = "done" /\ result' = RunErr("SingleInputDirectoryIsNotADirectory")
          /\ UNCHANGED <<b, calls>>
     ELSE IF IsDir(fs, Unwrap(opts.output))
     THEN pc' = "done" /\ result' = RunErr("OutputVolumeFileAlreadyExists")
          /\ UNCHANGED <<b, calls>>
     ELSE LET fr == Frame("single", Unwrap(opts.output), 1, 1, 1, 1, 1,
                          <<[chapter |-> 1, path |-> SingleInput, name |-> Unwrap(opts.output)]>>,
                          fs)
          IN /\ b' = fr
             /\ calls' = Append(calls, CallRecord(fr))
             /\ pc' = "bv_begin"
             /\ UNCHANGED result
  /\ UNCHANGED <<env, output_created, fs, c>>

(***************************************************************************)
(* build_volume, step by step                                              *)
(***************************************************************************)
AppendEntry(f, p, entry) == [f EXCEPT ![p].entries = Append(@, entry)]

\* Lines 26-81: up to the creation of the staging file
BvBegin ==
  /\ pc = "bv_begin"
  /\ touched' = TRUE
  /\ LET r == begin_volume(opts, fs, b)
     IN /\ fs' = r.fs
        /\ b' = [b EXCEPT !.noext = r.noext, !.result = r.result]
        /\ pc' = IF r.result.kind = "Pending" THEN "bv_write" ELSE "bv_ret"
  /\ UNCHANGED <<env, output_created, c, result, calls>>

\* Lines 117-178: the next chapter's pictures are listed and sorted and its
\* directory entry is added to the archive
BvChapter ==
  /\ pc = "bv_write"
  /\ ~b.in_chapter
  /\ b.ci <= Len(b.chapters)
  /\ \E pics \in chapter_pics_of(opts, chapter_files[b.chapters[b.ci].path]) :
       /\ fs' = AppendEntry(fs, staging_path_of(b.noext),
                            [type |-> "dir",
                             dir |-> zip_dir_name(opts, b.volume, b.vol_num_len, b.chapter_num_len,
                                                  b.chapters[b.ci].chapter, b.chapters),
                             name |-> <<>>,
                             source |-> <<>>])
       /\ b' = IF pics = <<>>
               THEN [b EXCEPT !.ci = b.ci + 1, !.chapter_pics = <<>>, !.pi = 0]
               ELSE [b EXCEPT !.in_chapter = TRUE, !.chapter_pics = pics, !.pi = 0]
  /\ UNCHANGED <<env, output_created, pc, c, result, calls, touched>>

\* Lines 180-239: the next picture of the chapter is copied into the archive
BvPage ==
  /\ pc = "bv_write"
  /\ b.in_chapter
  /\ LET ch == b.chapters[b.ci]
         file == b.chapter_pics[b.pi + 1]
         last == b.pi + 1 = Len(b.chapter_pics)
     IN /\ fs' = AppendEntry(fs, staging_path_of(b.noext),
                             [type |-> "file",
                              dir |-> zip_dir_name(opts, b.volume, b.vol_num_len,
                                                   b.chapter_num_len, ch.chapter, b.chapters),
                              name |-> name_in_zip(opts, b.noext, b.volume, b.vol_num_len,
                                                   b.chapter_num_len, ch.chapter, b.chapters,
                                                   b.pi, pic_num_len(Len(b.chapter_pics)), file),
                              source |-> <<ch.path, file>>])
        /\ b' = [b EXCEPT !.pi = b.pi + 1,
                          !.pics_counter = b.pics_counter + 1,
                          !.in_chapter = ~last,
                          !.ci = IF last THEN b.ci + 1 ELSE b.ci]
  /\ UNCHANGED <<env, output_created, pc, c, result, calls, touched>>

\* Lines 242-245: the archive is closed
BvFinish ==
  /\ pc = "bv_write"
  /\ ~b.in_chapter
  /\ b.ci > Len(b.chapters)
  /\ fs' = [fs EXCEPT ![staging_path_of(b.noext)].finished = TRUE]
  /\ pc' = "bv_publish"
  /\ UNCHANGED <<env, output_created, c, b, result, calls, touched>>

\* Lines 247-327: the final path is computed and the staging file renamed to it
BvPublish ==
  /\ pc = "bv_publish"
  /\ LET r == publish_volume(opts, fs, staging_path_of(b.noext),
                             complete_path_of(opts, b.noext, b.pics_counter))
     IN /\ fs' = r.fs
        /\ b' = [b EXCEPT !.result = r.result]
  /\ pc' = "bv_ret"
  /\ UNCHANGED <<env, output_created, c, result, calls, touched>>

\* An I/O operation of build_volume fails where the code calls one (creating
\* the staging file, listing a chapter, reading a picture, writing or closing
\* the archive, renaming): the error is returned and the file system is left
\* as it is
IoError ==
  /\ pc \in {"bv_begin", "bv_write", "bv_publish"}
  /\ pc = "bv_begin" => begin_volume(opts, fs, b).result.kind = "Pending"
  /\ pc = "bv_publish" =>
       publish_volume(opts, fs, staging_path_of(b.noext),
                      complete_path_of(opts, b.noext, b.pics_counter)).result.kind = "Ok"
  /\ b' = [b EXCEPT !.noext = IF pc = "bv_begin" THEN begin_volume(opts, fs, b).noext ELSE @,
                    !.result = Err("Io")]
  /\ pc' = "bv_ret"
  /\ touched' = TRUE
  /\ UNCHANGED <<env, output_created, fs, c, result, calls>>

\* build_volume returns to its caller: compile pushes the path and goes on
\* (lines 182-196), or returns after the last volume (lines 201-220), and an
\* error ends the run; encode_one returns what build_volume returned
BvReturn ==
  /\ pc = "bv_ret"
  /\ calls' = [calls EXCEPT ![Len(calls)].result = b.result]
  /\ b' = NoFrame
  /\ CASE b.result.kind = "Panic" ->
            pc' = "done" /\ result' = RunPanic /\ UNCHANGED c
       [] b.result.kind = "Err" ->
            pc' = "done" /\ result' = RunErr(b.result.err) /\ UNCHANGED c
       [] b.result.kind = "Ok" /\ b.ret = "loop" ->
            /\ c' = [c EXCEPT !.output_files = Append(c.output_files, b.result.path),
                              !.volume_start_chapter = c.volume_start_chapter + Len(c.volume_chapters),
                              !.volume_chapters = <<>>,
                              !.volume = c.volume + 1]
            /\ pc' = "loop"
            /\ UNCHANGED result
       [] b.result.kind = "Ok" /\ b.ret = "tail" ->
            /\ c' = [c EXCEPT !.output_files = Append(c.output_files, b.result.path)]
            /\ pc' = "done"
            /\ result' = RunOk(Append(c.output_files, b.result.path))
       [] b.result.kind = "Ok" /\ b.ret = "single" ->
            pc' = "done" /\ result' = RunOk(<<b.result.path>>) /\ UNCHANGED c
  /\ UNCHANGED <<env, output_created, fs, touched>>

\* The process is interrupted: what is on disk stays as it is
Interrupt ==
  /\ pc \in {"loop", "bv_begin", "bv_write", "bv_publish", "bv_ret"}
  /\ pc' = "done"
  /\ result' = RunKilled
  /\ c' = CompileLocals
  /\ b' = NoFrame
  /\ UNCHANGED <<env, output_created, fs, calls, touched>>

(***************************************************************************)
(* The runs the model starts from                                          *)
(***************************************************************************)
OutDir == <<"o", "u", "t">>

BaseOpts ==
  [method |-> "Ranges", chapters_per_volume |-> 1, append_chapters_range |-> FALSE,
   skip_existing |-> FALSE, display_full_names |-> FALSE, create_output_dir |-> FALSE,
   dirs_prefix |-> None, start_chapter |-> None, end_chapter |-> None,
   output |-> Some(OutDir), overwrite |-> FALSE, append_pages_count |-> FALSE,
   accept_extended_image_formats |-> FALSE, simple_sorting |-> FALSE]

OptRange == {None} \cup {Some(n) : n \in 0..MaxRange}

\* The method with its chapters per volume: Each has none
Methods(ks) == {<<"Ranges", k>> : k \in ks} \cup {<<"Each", 1>>}

IndexOf(seq, x) == CHOOSE i \in 1..Len(seq) : seq[i] = x

SourceFiles ==
  [d \in {ChapterCatalogue[i] : i \in 1..Len(ChapterCatalogue)} \cup {SingleInput} |->
     IF d = SingleInput THEN ChapterFiles(2) ELSE ChapterFiles(IndexOf(ChapterCatalogue, d))]

\* No comparison asked
NoCmp ==
  [left |-> <<>>, right |-> <<>>, done |-> FALSE, natural |-> "none", reverse |-> "none",
   lib |-> "none", lib_reverse |-> "none", raw |-> "none"]

\* encode not called
NoEncode ==
  [method |-> "Single", k |-> 0, start |-> None, end |-> None, overwrite |-> FALSE,
   skip_existing |-> FALSE, total |-> 0, existing |-> {}, pc |-> "idle",
   start_chapter |-> 0, end_chapter |-> 0, chapter_len |-> 0, volumes |-> 0, taken |-> 0,
   volume |-> 1, volume_chapters |-> 0, volume_start_chapter |-> 1, output_files |-> <<>>,
   built |-> <<>>, result |-> "Running"]

\* No width asked
NoWidths ==
  [total |-> 0, pages |-> 0, done |-> FALSE, outcome |-> "none", vol_num_len |-> 0,
   chapter_num_len |-> 0, chapter_len |-> 0, pic_num_len |-> 0]

\* decode not called
NoDecode ==
  [pc |-> "idle", input |-> <<>>, output_exists |-> FALSE, create_output_dir |-> FALSE,
   only_extract_images |-> FALSE, extended_image_formats |-> FALSE,
   disable_nat_sort |-> FALSE, i |-> 0, pages |-> <<>>, out |-> EmptyFs,
   extracted |-> <<>>, result |-> "Running", created_output_dir |-> FALSE]

\* rebuild not called: its Config, the files it works on (the archives by
\* path, the temporary wrapper directory with its sub-directories) and its
\* local variables
NoRebuild ==
  [pc |-> "idle", input |-> <<>>, output |-> None, overwrite |-> FALSE,
   only_extract_images |-> FALSE, disable_nat_sort |-> FALSE,
   files |-> EmptyFs, wrapper |-> [exists |-> FALSE, dirs |-> EmptyFs],
   files0 |-> EmptyFs, wrapper0 |-> [exists |-> FALSE, dirs |-> EmptyFs],
   i |-> 0, pages |-> <<>>, renamed |-> 0, chapter_dirs |-> <<>>, ci |-> 0,
   in_chapter |-> FALSE, chapter_pics |-> <<>>, pi |-> 0, result |-> "Running",
   interrupts |-> 0, in_window |-> FALSE, late |-> FALSE,
   returned |-> <<>>, cleanup_failed |-> FALSE,
   dir |-> FALSE, todo |-> <<>>, output_files |-> <<>>]

\* The other programs of the repository are not run
InitOthers ==
  /\ cmp = NoCmp
  /\ enc = NoEncode
  /\ wid = NoWidths
  /\ dec = NoDecode
  /\ rb = NoRebuild

\* What does not depend on the scenario
InitCommon ==
  /\ InitOthers
  /\ chapter_files = SourceFiles
  /\ output_created = FALSE
  /\ fs = fs0
  /\ pc = "start"
  /\ c = CompileLocals
  /\ b = NoFrame
  /\ result = Running
  /\ calls = <<>>
  /\ touched = FALSE

\* Batching and range selection: every method, volume size, range and number
\* of chapter directories, into an empty output directory
InitPlan ==
  /\ opts \in {[BaseOpts EXCEPT !.method = m[1], !.chapters_per_volume = m[2],
                                !.start_chapter = s, !.end_chapter = e, !.simple_sorting = ss] :
                 m \in Methods(0..MaxK), s \in OptRange, e \in OptRange, ss \in BOOLEAN}
  /\ overflow_checks \in BOOLEAN
  /\ input_kind = "dir"
  /\ input_entries \in {ChapterDirs(n) : n \in 0..MaxChapters}
  /\ output_is_dir = TRUE
  /\ fs0 = EmptyFs
  /\ InitCommon

\* The input and output directories: present or not, created or not
InitDirs ==
  /\ opts \in {[BaseOpts EXCEPT !.chapters_per_volume = k, !.start_chapter = s,
                                !.output = out, !.create_output_dir = cod,
                                !.dirs_prefix = pre] :
                 k \in 0..1, s \in {None, Some(0)}, out \in {None, Some(OutDir)},
                 cod \in BOOLEAN, pre \in {None, Some(<<"c", "1">>)}}
  /\ overflow_checks = TRUE
  /\ input_kind \in {"dir", "file", "missing"}
  /\ input_entries = ChapterDirs(PublishMaxChapters)
  /\ output_is_dir \in BOOLEAN
  /\ opts.output = None => output_is_dir
  /\ fs0 = EmptyFs
  /\ InitCommon

\* The names without extension a run over n chapter directories can give a volume
PlannedNames(o, n) ==
  CASE o.method = "Ranges" ->
         {output_path_without_ext(o, <<>>, v, Len(to_string(ceil_div(n, chap_per_vol(o)))),
                                  Len(to_string(n)), st, SubSeq(ChapterCatalogue, 1, len)) :
            v \in 1..(n + 1), st \in 1..(n + 1), len \in 0..chap_per_vol(o)}
    [] o.method = "Each" -> {ChapterCatalogue[i] : i \in 1..n}
    [] o.method = "Single" -> {with_extension(Unwrap(o.output), <<>>)}

\* The paths such a run can look at: staging paths, final paths, and in Each
\* mode the chapter's name followed by .cbz
PlannedPaths(o, n) ==
  UNION {{staging_path_of(x)} \cup {x \o <<".">> \o Ext_cbz}
         \cup {complete_path_of(o, x, pics) : pics \in 0..(MaxPages * chap_per_vol(o))} :
         x \in PlannedNames(o, n)}

\* The output directory before the run: empty, or holding one file or one
\* directory at one of those paths
UsedOutputDirs(o, n) ==
  {EmptyFs} \cup {Put(EmptyFs, p, what) : p \in PlannedPaths(o, n), what \in {PreFile, PreDir}}

\* Publication: the overwrite, skip-existing, page count and chapter range
\* options against an output directory that is already in use
InitPublish ==
  /\ opts \in {[BaseOpts EXCEPT !.method = m[1], !.chapters_per_volume = m[2],
                                !.append_chapters_range = acr, !.skip_existing = sk,
                                !.overwrite = ow, !.append_pages_count = apc] :
                 m \in Methods(1..PublishMaxK), acr \in BOOLEAN, sk \in BOOLEAN,
                 ow \in BOOLEAN, apc \in BOOLEAN}
  /\ opts.method = "Ranges" => ~opts.skip_existing
  /\ opts.method = "Each" => ~opts.append_chapters_range
  /\ ~(opts.skip_existing /\ opts.append_pages_count)
  /\ overflow_checks = TRUE
  /\ input_kind = "dir"
  /\ input_entries \in {ChapterDirs(n) : n \in 1..PublishMaxChapters}
  /\ output_is_dir = TRUE
  /\ fs0 \in UsedOutputDirs(opts, Len(input_entries))
  /\ InitCommon

\* encode_one: one directory into one archive at the given path
InitSingle ==
  /\ opts \in {[BaseOpts EXCEPT !.method = "Single", !.output = Some(out),
                                !.overwrite = ow, !.append_pages_count = apc] :
                 out \in {<<"o", ".", "c", "b", "z">>, <<"o", ".", "z", "i", "p">>},
                 ow \in BOOLEAN, apc \in BOOLEAN}
  /\ overflow_checks = TRUE
  /\ input_kind \in {"dir", "file", "missing"}
  /\ input_entries = <<>>
  /\ output_is_dir = TRUE
  /\ fs0 \in UsedOutputDirs(opts, 1)
  /\ InitCommon

Init == InitPlan \/ InitDirs \/ InitPublish \/ InitSingle

Next ==
  \/ Validate
  \/ Discover
  \/ LoopNext
  \/ LoopEnd
  \/ EncodeOne
  \/ BvBegin
  \/ BvChapter
  \/ BvPage
  \/ BvFinish
  \/ BvPublish
  \/ IoError
  \/ BvReturn
  \/ Interrupt

Spec == Init /\ [][Next]_vars

(***************************************************************************)
(* The comparators on their own: natural_cmp of src/lib/natsort.rs, its    *)
(* older copy of src/lib.rs and the raw comparison of paths                *)
(***************************************************************************)
\* No run of compile: an empty input directory, nothing started
InitNoRun ==
  /\ opts = BaseOpts
  /\ overflow_checks = TRUE
  /\ input_kind = "dir"
  /\ input_entries = <<>>
  /\ output_is_dir = TRUE
  /\ fs0 = EmptyFs
  /\ chapter_files = SourceFiles
  /\ output_created = FALSE
  /\ fs = fs0
  /\ pc = "start"
  /\ c = CompileLocals
  /\ b = NoFrame
  /\ result = Running
  /\ calls = <<>>
  /\ touched = FALSE

\* Every string of at most n characters of the alphabet
StringsUpTo(alphabet, n) == UNION {[1..k -> alphabet] : k \in 0..n}

\* Two digits, a lowercase letter and an uppercase letter
CmpAlphabet == {"0", "1", "a", "B"}

S_Folder == <<"F", "o", "l", "d", "e", "r", " ">>
S_Chapter_sp == <<"C", "h", "a", "p", "t", "e", "r", " ">>

\* Names with numbers in them
CmpCorpus ==
  {S_Folder \o <<"2">>, S_Folder \o <<"1", "0">>, S_Folder \o <<"0", "2">>,
   S_Chapter_sp \o <<"1", "a">>, S_Chapter_sp \o <<"1", "b">>,
   <<"1", "x", "2">>, <<"1", "x", "1", "0">>, <<"0", "1", "x", "2">>}

CmpStrings == StringsUpTo(CmpAlphabet, CmpMaxLen) \cup CmpCorpus

InitCmp ==
  /\ enc = NoEncode /\ wid = NoWidths /\ dec = NoDecode /\ rb = NoRebuild
  /\ cmp \in {[NoCmp EXCEPT !.left = l, !.right = r] : l \in CmpStrings, r \in CmpStrings}
  /\ InitNoRun

\* The comparators are applied to the two strings, in both orders for natural_cmp
Compare ==
  /\ ~cmp.done
  /\ cmp' = [cmp EXCEPT !.done = TRUE,
                        !.natural = natural_cmp(cmp.left, cmp.right),
                        !.reverse = natural_cmp(cmp.right, cmp.left),
                        !.lib = lib_natural_cmp(cmp.left, cmp.right),
                        !.lib_reverse = lib_natural_cmp(cmp.right, cmp.left),
                        !.raw = path_cmp(cmp.left, cmp.right)]
  /\ UNCHANGED <<compile_vars, enc, wid, dec, rb>>

NextCmp == Compare

SpecCmp == InitCmp /\ [][NextCmp]_vars

(***************************************************************************)
(* Vocabulary of the properties                                            *)
(***************************************************************************)
IsCompile == opts.method \in {"Ranges", "Each"}

\* The number of chapter directories compile discovers
Discovered == Len(KeptDirs(opts, input_entries))

\* The chapters the loop of compile iterates over
Iterated(cl) ==
  SubSeq(cl.chapter_dirs, cl.start_chapter + 1,
         Min(Len(cl.chapter_dirs), cl.start_chapter + cl.chapter_len))

RECURSIVE ConcatNames(_)
ConcatNames(cs) ==
  IF cs = <<>> THEN <<>>
  ELSE [i \in 1..Len(cs[1].chapters) |-> cs[1].chapters[i].name] \o ConcatNames(Tail(cs))

\* The pictures build_volume finds in these chapters
RECURSIVE TotalPics(_)
TotalPics(chapters) ==
  IF chapters = <<>> THEN 0
  ELSE Cardinality({x \in {chapter_files[chapters[1].path][i] :
                             i \in 1..Len(chapter_files[chapters[1].path])} :
                      has_image_ext(x, opts.accept_extended_image_formats)})
       + TotalPics(Tail(chapters))

\* The final path of the volume of the current call
FinalPath == complete_path_of(opts, b.noext, TotalPics(b.chapters))

EndsWith(p, suffix) ==
  Len(p) >= Len(suffix) /\ SubSeq(p, Len(p) - Len(suffix) + 1, Len(p)) = suffix

\* The staging files written by the run
RunStagingFiles ==
  {p \in DOMAIN fs : fs[p].origin = "run" /\ EndsWith(p, <<".">> \o Ext_partial)}

\* A build_volume call has returned and its caller has not gone on yet
Returned == pc = "bv_ret" /\ b.result.kind \in {"Ok", "Err"}

\* The call went through build_volume's own checks: no I/O operation failed
\* under it and the staging path was free to be created
NoOtherFailure ==
  b.result.err \notin {"Io", "FailedToCreateVolumeFile", "FailedToRenameCompleteArchive"}
  /\ ~(b.result.err = "OutputVolumeFileAlreadyExists" /\ ~Exists(b.fs_at_entry, FinalPath))

(***************************************************************************)
(* C1. compile builds ceil(n/k) volumes out of the n chapters it iterates  *)
(* over: each holds k chapters, the last one between 1 and k, and the      *)
(* volumes' chapters, concatenated in build order, are those n chapters.   *)
(***************************************************************************)
C1_Batching ==
  (pc = "done" /\ result.kind = "Ok" /\ IsCompile) =>
    LET n == Len(Iterated(c))
        k == chap_per_vol(opts)
    IN /\ Len(calls) = ceil_div(n, k)
       /\ \A i \in 1..Len(calls) :
            IF i < Len(calls) THEN Len(calls[i].chapters) = k
            ELSE Len(calls[i].chapters) \in 1..k
       /\ ConcatNames(calls) = Iterated(c)

(***************************************************************************)
(* C2. With T chapter directories in sorted order and 1 <= start <= end,   *)
(* compile does not panic and the chapters it iterates over are those at   *)
(* the sorted positions start..min(end, T).                                *)
(***************************************************************************)
C2_Selection ==
  /\ (pc = "loop") =>
       Iterated(c) = SubSeq(c.chapter_dirs, unwrap_or(opts.start_chapter, 1),
                            Min(unwrap_or(opts.end_chapter, Len(c.chapter_dirs)),
                                Len(c.chapter_dirs)))
  /\ (IsCompile /\ calls = <<>>) => result.kind # "Panic"

(***************************************************************************)
(* C3. When no chapter is selected (no chapter directory, or a start       *)
(* chapter beyond the last one), compile returns Ok with no volume, never  *)
(* calls build_volume and leaves the output directory as it was.           *)
(***************************************************************************)
NothingSelected ==
  /\ IsCompile
  /\ ConfigError(opts) = "none"
  /\ input_kind = "dir"
  /\ output_is_dir
  /\ unwrap_or(opts.start_chapter, 1) > Discovered

C3_NothingToDo ==
  NothingSelected =>
    /\ calls = <<>>
    /\ fs = fs0
    /\ (pc = "done" /\ result.kind # "Killed") => result = RunOk(<<>>)

(***************************************************************************)
(* C4. As stated: whenever the final path of the volume exists and         *)
(* overwrite is off, build_volume returns an error and what is at the      *)
(* final path is what was there.                                           *)
(***************************************************************************)
C4_Original ==
  (Returned /\ ~opts.overwrite /\ Exists(b.fs_at_entry, FinalPath)) =>
    /\ b.result.kind = "Err"
    /\ Exists(fs, FinalPath) /\ fs[FinalPath] = b.fs_at_entry[FinalPath]

(***************************************************************************)
(* C4, amended. When the final path of the volume exists and overwrite is  *)
(* off, what is at the final path is left as it was, and build_volume      *)
(* returns an error unless skip-existing applies (Each mode), where it     *)
(* returns the existing path instead.                                      *)
(***************************************************************************)
C4_NoOverwrite ==
  (Returned /\ ~opts.overwrite /\ Exists(b.fs_at_entry, FinalPath)) =>
    /\ Exists(fs, FinalPath) /\ fs[FinalPath] = b.fs_at_entry[FinalPath]
    /\ IF opts.method = "Each" /\ opts.skip_existing
       THEN b.result = Ok(FinalPath)
       ELSE b.result.kind = "Err"

\* The staging file was written and closed, the final path was taken, and the
\* call failed leaving the file that was there
C4_Witness ==
  /\ Returned /\ ~opts.overwrite
  /\ Exists(b.fs_at_entry, FinalPath) /\ b.fs_at_entry[FinalPath] = PreFile
  /\ b.result = Err("OutputVolumeFileAlreadyExists")
  /\ Exists(fs, staging_path_of(b.noext)) /\ fs[staging_path_of(b.noext)].finished
  /\ fs[FinalPath] = PreFile

(***************************************************************************)
(* C5. When the final path exists as a regular file and overwrite is on,   *)
(* build_volume (skip-existing aside, and unless an I/O operation fails)   *)
(* succeeds and the final path holds the archive it has just written.      *)
(***************************************************************************)
C5_Overwrite ==
  (/\ Returned /\ opts.overwrite /\ ~opts.skip_existing
   /\ Exists(b.fs_at_entry, FinalPath) /\ b.fs_at_entry[FinalPath].kind = "file"
   /\ NoOtherFailure) =>
    /\ b.result.kind = "Ok"
    /\ Exists(fs, FinalPath)
    /\ fs[FinalPath].origin = "run" /\ fs[FinalPath].finished
    /\ fs[FinalPath] # b.fs_at_entry[FinalPath]

(***************************************************************************)
(* C6. The path build_volume returns on success is the final path of the   *)
(* volume, and every path a successful run returns names a file that       *)
(* exists in the output directory.                                         *)
(***************************************************************************)
C6_ReturnedPaths ==
  /\ (Returned /\ b.result.kind = "Ok") =>
       b.result.path = FinalPath /\ Exists(fs, b.result.path)
  /\ (pc = "done" /\ result.kind = "Ok") =>
       \A i \in 1..Len(result.files) :
         Exists(fs, result.files[i]) /\ fs[result.files[i]].kind = "file"

(***************************************************************************)
(* C7. A configuration with chapters_per_volume = 0, start = 0, end = 0 or *)
(* end < start is rejected with its error (the first of these checks that  *)
(* fails) before any access to the file system: nothing is read, the       *)
(* output directory is not created, build_volume is not called.            *)
(***************************************************************************)
ExpectedConfigError ==
  CASE opts.method = "Ranges" /\ opts.chapters_per_volume = 0 -> "AtLeast1ChapterPerVolume"
    [] OTHER ->
  CASE opts.start_chapter = Some(0) -> "InvalidStartChapter"
    [] OTHER ->
  CASE opts.end_chapter = Some(0) -> "InvalidEndChapter"
    [] OTHER ->
  CASE IsSome(opts.start_chapter) /\ IsSome(opts.end_chapter)
       /\ Unwrap(opts.end_chapter) < Unwrap(opts.start_chapter) ->
         "StartChapterCannotBeHigherThanEndChapter"
    [] OTHER -> "none"

C7_ConfigRejected ==
  (IsCompile /\ ExpectedConfigError # "none") =>
    /\ ~touched
    /\ ~output_created
    /\ fs = fs0
    /\ calls = <<>>
    /\ pc \in {"start", "done"}
    /\ pc = "done" => result = RunErr(ExpectedConfigError)

\* A start chapter of 0 is rejected although the input directory is missing,
\* and the output directory, missing too, is not created although
\* --create-output-dir asks for it
C7_Witness ==
  /\ pc = "done"
  /\ result = RunErr("InvalidStartChapter")
  /\ ~output_is_dir /\ opts.create_output_dir /\ ~output_created
  /\ input_kind = "missing"

(***************************************************************************)
(* C8. In Each mode with skip-existing, when <chapter directory name>.cbz  *)
(* exists in the output directory, build_volume returns that path and      *)
(* leaves the output directory as it was: no staging file, nothing         *)
(* written, the existing file unchanged.                                   *)
(***************************************************************************)
ChapterArchive == b.chapters[1].name \o <<".">> \o Ext_cbz

C8_SkipExisting ==
  (/\ Returned /\ opts.method = "Each" /\ opts.skip_existing
   /\ Len(b.chapters) = 1
   /\ Exists(b.fs_at_entry, ChapterArchive)) =>
    /\ b.result = Ok(ChapterArchive)
    /\ fs = b.fs_at_entry

(***************************************************************************)
(* C9. Volumes are built one at a time in increasing order of their index: *)
(* a call of build_volume begins only after every earlier call has         *)
(* returned successfully and left no staging file of the run behind, and   *)
(* in every state, those after a failure or an interruption included, at   *)
(* most one staging file written by the run exists.                        *)
(***************************************************************************)
C9_Sequential ==
  /\ Cardinality(RunStagingFiles) <= 1
  /\ \A i \in 1..Len(calls) :
       /\ calls[i].volume = i
       /\ i < Len(calls) => calls[i].result.kind = "Ok"
  /\ pc = "bv_begin" => RunStagingFiles = {}
  /\ RunStagingFiles # {} =>
       /\ calls # <<>>
       /\ pc \in {"bv_write", "bv_publish", "bv_ret", "done"}
       /\ pc = "done" => result.kind \in {"Err", "Killed"}

\* The second volume is being written after the first one was published, and
\* its staging file is the only one
C9_Witness ==
  /\ pc = "bv_write"
  /\ Len(calls) = 2
  /\ calls[1].result.kind = "Ok"
  /\ RunStagingFiles = {staging_path_of(b.noext)}
  /\ \E p \in DOMAIN fs : fs[p].origin = "run" /\ fs[p].finished /\ fs[p].entries # <<>>

(***************************************************************************)
(* C10. In Each mode every call of build_volume by compile passes exactly  *)
(* one chapter, so that the assertion of build_volume never fails.         *)
(***************************************************************************)
C10_OneChapterEach ==
  opts.method = "Each" =>
    /\ \A i \in 1..Len(calls) : Len(calls[i].chapters) = 1
    /\ b.result.kind # "Panic"

(***************************************************************************)
(* C16. In Ranges mode with the chapter-range option, a volume with a      *)
(* non-empty batch is named "Volume-<v> (c<s>-c<e>)", s being the ordinal  *)
(* of its first chapter and e = s + batch size - 1; the ranges of the      *)
(* volumes of a run follow each other without gap or overlap from 1 and    *)
(* cover exactly the ordinals 1..number of selected chapters.              *)
(***************************************************************************)
\* The number of chapters passed by the first n calls of build_volume
ChaptersBefore(n) == Len(ConcatNames(SubSeq(calls, 1, n)))

RangeName(v, s, size) ==
  S_Volume \o FormatPadded(v, c.vol_num_len) \o <<" ", "(", "c">>
  \o FormatPadded(s, c.chapter_num_len) \o <<"-", "c">>
  \o FormatPadded(s + size - 1, c.chapter_num_len) \o <<")">>

C16_ChapterRanges ==
  (opts.method = "Ranges" /\ opts.append_chapters_range) =>
    /\ (Returned /\ b.chapters # <<>>) =>
         b.noext = RangeName(b.volume, b.start_chapter, Len(b.chapters))
    /\ \A i \in 1..Len(calls) :
         calls[i].chapters # <<>> => calls[i].start_chapter = ChaptersBefore(i - 1) + 1
    /\ (pc = "done" /\ result.kind = "Ok") =>
         ChaptersBefore(Len(calls)) = Len(Iterated(c))

(***************************************************************************)
(* C17. In Each mode every page written into an archive is named           *)
(* <raw chapter directory name>_Pic_<page number>.<ext> inside a directory *)
(* named with the raw chapter directory name: neither the quotes nor the   *)
(* truncation of the console display name appear in a path of the archive. *)
(***************************************************************************)
C17_EachRawNames ==
  opts.method = "Each" =>
    \A p \in DOMAIN fs : fs[p].origin = "run" =>
      \A i \in 1..Len(fs[p].entries) :
        LET x == fs[p].entries[i]
            raw == x.source[1]
        IN x.type = "file" =>
             /\ x.dir = raw
             /\ \E n \in 0..(MaxPages + 1), w \in 1..2 :
                  x.name = raw \o S_Pic \o FormatPadded(n, w) \o <<".">> \o extension(x.source[2])
             /\ \A j \in 1..Len(x.name) : x.name[j] # "'"

(***************************************************************************)
(* The padding widths on their own: compile's vol_num_len and              *)
(* chapter_num_len (src/actions/compile.rs) and build_volume's pic_num_len *)
(* (src/lib/build_vol.rs), on counts of chapter directories and pictures   *)
(***************************************************************************)
\* Counts around the powers of ten
WidthCounts == (0..WidthMaxCount) \cup {99, 100, 999, 1000, 1234}

InitWidths ==
  /\ opts \in {[BaseOpts EXCEPT !.method = m[1], !.chapters_per_volume = m[2],
                                !.start_chapter = s, !.end_chapter = en] :
                 m \in Methods(1..WidthMaxK),
                 s \in {None, Some(1), Some(2), Some(WidthMaxCount)},
                 en \in {None, Some(1), Some(WidthMaxCount - 1), Some(1000)}}
  /\ overflow_checks \in BOOLEAN
  /\ wid \in {[NoWidths EXCEPT !.total = t, !.pages = p] :
                t \in WidthCounts, p \in WidthCounts \ {999, 1000, 1234}}
  /\ cmp = NoCmp /\ enc = NoEncode /\ dec = NoDecode /\ rb = NoRebuild
  /\ input_kind = "dir"
  /\ input_entries = <<>>
  /\ output_is_dir = TRUE
  /\ fs0 = EmptyFs
  /\ chapter_files = SourceFiles
  /\ output_created = FALSE
  /\ fs = fs0
  /\ pc = "start"
  /\ c = CompileLocals
  /\ b = NoFrame
  /\ result = Running
  /\ calls = <<>>
  /\ touched = FALSE

\* The widths compile computes for wid.total chapter directories and the
\* width build_volume computes for a chapter of wid.pages pictures
Widths ==
  /\ ~wid.done
  /\ LET r == ResolveRange(opts, wid.total, overflow_checks)
     IN wid' = IF r.outcome = "plan"
               THEN [wid EXCEPT !.done = TRUE, !.outcome = r.outcome,
                                !.vol_num_len = r.vol_num_len,
                                !.chapter_num_len = r.chapter_num_len,
                                !.chapter_len = r.chapter_len,
                                !.pic_num_len = pic_num_len(wid.pages)]
               ELSE [wid EXCEPT !.done = TRUE, !.outcome = r.outcome,
                                !.pic_num_len = pic_num_len(wid.pages)]
  /\ UNCHANGED <<compile_vars, cmp, enc, dec, rb>>

NextWidths == Widths

SpecWidths == InitWidths /\ [][NextWidths]_vars

\* The number of decimal digits of a natural number
RECURSIVE DecimalDigits(_)
DecimalDigits(n) == IF n < 10 THEN 1 ELSE 1 + DecimalDigits(n \div 10)

\* The least q with q * k >= n
CeilOfQuotient(n, k) == CHOOSE q \in 0..n : q * k >= n /\ (q = 0 \/ (q - 1) * k < n)

\* C18: the widths are functions of the counts: the volume-number width is
\* the number of digits of ceil(discovered / k), the chapter-number width
\* that of the number of discovered directories, whatever start and end
\* select, and the page-number width that of the chapter's number of
\* pictures; 1234 chapters give 4, 7 pictures 1 and 10 pictures 2
C18_Widths ==
  wid.done =>
    /\ wid.outcome = "plan" =>
         /\ wid.vol_num_len = DecimalDigits(CeilOfQuotient(wid.total, chap_per_vol(opts)))
         /\ wid.chapter_num_len = DecimalDigits(wid.total)
         /\ wid.total = 1234 => wid.chapter_num_len = 4
    /\ wid.pic_num_len = DecimalDigits(wid.pages)
    /\ wid.pages = 7 => wid.pic_num_len = 1
    /\ wid.pages = 10 => wid.pic_num_len = 2

\* 1234 chapter directories of which a start and an end chapter select fewer
\* than ten, and a chapter of ten pictures
C18_Witness ==
  /\ wid.done /\ wid.outcome = "plan"
  /\ wid.total = 1234 /\ wid.chapter_len < 10 /\ opts.start_chapter # None
  /\ wid.chapter_num_len = 4 /\ wid.vol_num_len = 3
  /\ wid.pages = 10 /\ wid.pic_num_len = 2

(***************************************************************************)
(* decode (src/cli/decode.rs) of a ZIP / CBZ archive                       *)
(***************************************************************************)
S_tmp_pic == <<"_", "_", "_", "t", "m", "p", "_", "p", "i", "c", "_">>

\* The temporary name of the n-th extracted page (line 120)
tmp_pic_name(n) == S_tmp_pic \o to_string(n)

\* Path::extension as an Option
extension_of(name) == IF LastDot(name) <= 1 THEN None ELSE Some(extension(name))

\* PathBuf::cmp on two paths <<directory, file name>> of the archive:
\* component by component
zip_path_cmp(left, right) ==
  IF path_cmp(left[1], right[1]) # "Equal" THEN path_cmp(left[1], right[1])
  ELSE path_cmp(left[2], right[2])

\* natural_paths_cmp on two such paths
zip_natural_paths_cmp(left, right) ==
  IF natural_cmp(left[1], right[1]) # "Equal" THEN natural_cmp(left[1], right[1])
  ELSE natural_cmp(left[2], right[2])

\* The comparison of the sort of the pages (lines 142-146)
pages_cmp(disable_nat_sort, left, right) ==
  IF disable_nat_sort THEN zip_path_cmp(left.path_in_zip, right.path_in_zip)
  ELSE zip_natural_paths_cmp(left.path_in_zip, right.path_in_zip)

\* Vec::sort_by, a stable sort: each page is inserted behind the pages
\* already sorted that are not Greater than it
RECURSIVE sort_pages_from(_, _, _)
sort_pages_from(todo, sorted, disable_nat_sort) ==
  IF todo = <<>> THEN sorted
  ELSE LET x == todo[1]
           greater == {j \in 1..Len(sorted) : pages_cmp(disable_nat_sort, sorted[j], x) = "Greater"}
           at == IF greater = {} THEN Len(sorted) + 1
                 ELSE CHOOSE j \in greater : \A k \in greater : j <= k
       IN sort_pages_from(Tail(todo),
                          SubSeq(sorted, 1, at - 1) \o <<x>> \o SubSeq(sorted, at, Len(sorted)),
                          disable_nat_sort)

\* A decode that leaves the pages in the order of the archive
keep_archive_order(pages, disable_nat_sort) == pages

\* pages.sort_by (lines 142-146): a stable sort
sort_pages(pages, disable_nat_sort) == sort_pages_from(pages, <<>>, disable_nat_sort)

\* The final name of the page of rank i + 1 (lines 158-161)
target_name(i, page_num_len, ext) ==
  IF IsSome(ext) THEN FormatPadded(i + 1, page_num_len) \o <<".">> \o Unwrap(ext)
  ELSE FormatPadded(i + 1, page_num_len)

\* Lines 31-97: the input file, the output directory (lines 46-66), then the
\* format (lines 69-77, 216-222) and the opening of the archive. The input is
\* a path of the directory the archives of the run were written to; the PDF
\* format is not modelled.
DecodeStart ==
  /\ dec.pc = "start"
  /\ pc = "done" /\ result.kind = "Ok"
  /\ \E input \in DOMAIN fs :
       /\ extension(input) # <<"p", "d", "f">>
       /\ dec' =
         IF IsDir(fs, input)
         THEN [dec EXCEPT !.pc = "done", !.input = input, !.result = "InputFileIsADirectory"]
         ELSE IF ~dec.output_exists /\ ~dec.create_output_dir
         THEN [dec EXCEPT !.pc = "done", !.input = input, !.result = "OutputDirectoryNotFound"]
         ELSE IF extension(input) \notin {<<"z", "i", "p">>, Ext_cbz}
         THEN [dec EXCEPT !.pc = "done", !.input = input, !.output_exists = TRUE,
                          !.created_output_dir = ~dec.output_exists,
                          !.result = "UnsupportedFormat"]
         ELSE IF ~fs[input].finished
         THEN [dec EXCEPT !.pc = "done", !.input = input, !.output_exists = TRUE,
                          !.created_output_dir = ~dec.output_exists,
                          !.result = "InvalidZipArchive"]
         ELSE [dec EXCEPT !.pc = "extract", !.input = input, !.output_exists = TRUE,
                          !.created_output_dir = ~dec.output_exists, !.i = 0]
  /\ UNCHANGED <<compile_vars, cmp, enc, wid, rb>>

\* One iteration of the loop over the entries of the archive (lines 99-138)
DecodeExtract ==
  /\ dec.pc = "extract"
  /\ dec.i < Len(fs[dec.input].entries)
  /\ LET x == fs[dec.input].entries[dec.i + 1]
         outpath == tmp_pic_name(Len(dec.pages))
     IN dec' =
          IF x.type # "file" THEN [dec EXCEPT !.i = @ + 1]
          ELSE IF dec.only_extract_images /\ ~has_image_ext(x.name, dec.extended_image_formats)
          THEN [dec EXCEPT !.i = @ + 1]
          ELSE [dec EXCEPT !.i = @ + 1,
                           !.out = Put(@, outpath, x.source),
                           !.pages = Append(@, [path_in_zip |-> <<x.dir, x.name>>,
                                                extracted_path |-> outpath,
                                                extension |-> extension_of(x.name)])]
  /\ UNCHANGED <<compile_vars, cmp, enc, wid, rb>>

\* The sort of the extracted pages (lines 142-153)
DecodeSort ==
  /\ dec.pc = "extract"
  /\ dec.i = Len(fs[dec.input].entries)
  /\ dec' = [dec EXCEPT !.pc = "rename", !.pages = sort_pages(@, dec.disable_nat_sort)]
  /\ UNCHANGED <<compile_vars, cmp, enc, wid, rb>>

\* One iteration of the renaming loop (lines 157-170)
DecodeRename ==
  /\ dec.pc = "rename"
  /\ Len(dec.extracted) < Len(dec.pages)
  /\ LET i == Len(dec.extracted)
         page == dec.pages[i + 1]
         target == target_name(i, Len(to_string(Len(dec.pages))), page.extension)
     IN dec' = [dec EXCEPT !.out = Rename(@, page.extracted_path, target),
                           !.extracted = Append(@, target)]
  /\ UNCHANGED <<compile_vars, cmp, enc, wid, rb>>

\* decode returns the paths of the pages (lines 172, 225-230)
DecodeReturn ==
  /\ dec.pc = "rename"
  /\ Len(dec.extracted) = Len(dec.pages)
  /\ dec' = [dec EXCEPT !.pc = "done", !.result = "Ok"]
  /\ UNCHANGED <<compile_vars, cmp, enc, wid, rb>>

\* An I/O operation of decode fails (reading an entry, creating or writing
\* the temporary file, renaming it): the error is returned
DecodeIoError ==
  /\ dec.pc \in {"extract", "rename"}
  /\ dec' = [dec EXCEPT !.pc = "done", !.result = "IoError"]
  /\ UNCHANGED <<compile_vars, cmp, enc, wid, rb>>

(***************************************************************************)
(* Runs that write into the directory of their sources: compile without    *)
(* output directory (compile.rs:67-69), encode_one with an output file in  *)
(* its input directory                                                     *)
(***************************************************************************)
\* Chapter directories named as the files of volumes are
InPlaceChapters ==
  << <<"c", "1", ".", "5">>, <<"c", "1", ".", "c", "b", "z">>,
     <<"V", "o", "l", "u", "m", "e", "-", "1", ".", "c", "b", "z">> >>

\* Output files of encode_one named after a picture of the input directory
InPlaceOutputs ==
  {PageCatalogue[1] \o <<".">> \o Ext_cbz, PageCatalogue[1], <<"o", ".", "c", "b", "z">>}

InitInPlace ==
  /\ \/ /\ opts \in {[BaseOpts EXCEPT !.method = m[1], !.chapters_per_volume = m[2],
                                       !.output = None, !.skip_existing = sk,
                                       !.overwrite = ow, !.append_pages_count = apc] :
                        m \in Methods(1..InPlaceMaxK), sk \in BOOLEAN, ow \in BOOLEAN,
                        apc \in BOOLEAN}
        /\ opts.method = "Ranges" => ~opts.skip_existing
        /\ ~(opts.skip_existing /\ opts.append_pages_count)
        /\ input_entries \in {SubSeq(InPlaceChapters, 1, n) : n \in 1..Len(InPlaceChapters)}
        /\ fs0 = [p \in {input_entries[i] : i \in 1..Len(input_entries)} |-> PreDir]
     \/ /\ opts \in {[BaseOpts EXCEPT !.method = "Single", !.output = Some(out),
                                       !.overwrite = ow, !.append_pages_count = apc] :
                        out \in InPlaceOutputs, ow \in BOOLEAN, apc \in BOOLEAN}
        /\ input_entries = <<>>
        /\ fs0 \in {[p \in {ChapterFiles(2)[i] : i \in 1..Len(ChapterFiles(2))} \cup extra |->
                       PreFile] :
                     extra \in {{}, {staging_path_of(with_extension(Unwrap(opts.output), <<>>))}}}
  /\ overflow_checks = TRUE
  /\ input_kind = "dir"
  /\ output_is_dir = TRUE
  /\ chapter_files = [d \in {InPlaceChapters[i] : i \in 1..Len(InPlaceChapters)}
                            \cup {SingleInput} |-> ChapterFiles(2)]
  /\ InitOthers
  /\ output_created = FALSE
  /\ fs = fs0
  /\ pc = "start"
  /\ c = CompileLocals
  /\ b = NoFrame
  /\ result = Running
  /\ calls = <<>>
  /\ touched = FALSE

SpecInPlace == InitInPlace /\ [][Next]_vars

\* C24: every picture and every directory that was in the directory of the
\* sources before the run is there, as it was, in every state of the run
C24_SourcesUntouched ==
  \A p \in DOMAIN fs0 :
    (IsDir(fs0, p) \/ has_image_ext(p, TRUE)) => (Exists(fs, p) /\ fs[p] = fs0[p])

\* An encode_one run with overwrite has published an archive with pictures
\* next to its pictures, its output being named after one of them and its
\* staging file being there before
C24_Witness ==
  /\ opts.method = "Single" /\ opts.overwrite
  /\ Unwrap(opts.output) = PageCatalogue[1] \o <<".">> \o Ext_cbz
  /\ pc = "done" /\ result.kind = "Ok"
  /\ Exists(fs0, staging_path_of(with_extension(Unwrap(opts.output), <<>>)))
  /\ \E p \in DOMAIN fs : fs[p].origin = "run" /\ fs[p].finished /\ Len(fs[p].entries) > 1

(***************************************************************************)
(* build_volume and compile: where the archive is written, the order of    *)
(* its entries, the range and the numbers of the volumes                   *)
(***************************************************************************)
\* A path with the extension of staging files
IsStagingPath(p) == EndsWith(p, <<".">> \o Ext_partial)

\* C25: a file the run has put at a path that is not a staging path is a
\* complete archive, in every state; and a step changes the content of a
\* file only at a staging path, a file appearing at another path being the
\* finished staging file of the current call, renamed
C25_StagedWrites ==
  /\ [](\A p \in DOMAIN fs :
          (fs[p].origin = "run" /\ ~IsStagingPath(p)) =>
            (fs[p].kind = "file" /\ fs[p].finished))
  /\ [][\A p \in DOMAIN fs' :
          \/ p \in DOMAIN fs /\ fs'[p] = fs[p]
          \/ IsStagingPath(p)
          \/ /\ p \notin DOMAIN fs
             /\ Exists(fs, staging_path_of(b.noext))
             /\ IsStagingPath(staging_path_of(b.noext))
             /\ fs'[p] = fs[staging_path_of(b.noext)]
             /\ fs[staging_path_of(b.noext)].finished
             /\ ~Exists(fs', staging_path_of(b.noext))]_vars

\* A volume was published, then the writing of the next one failed and left
\* its unfinished staging file
C25_Witness ==
  /\ pc = "done" /\ result.kind = "Err"
  /\ \E p \in DOMAIN fs, q \in DOMAIN fs :
       /\ fs[p].origin = "run" /\ ~IsStagingPath(p) /\ fs[p].finished /\ Len(fs[p].entries) > 1
       /\ fs[q].origin = "run" /\ IsStagingPath(q) /\ ~fs[q].finished /\ fs[q].entries # <<>>

\* The number of directory entries among the first i entries
DirRank(entries, i) == Cardinality({k \in 1..i : entries[k].type = "dir"})

\* The pictures written for the j-th directory entry, in archive order
PagesOfRank(entries, j) ==
  LET OfRank(k) == entries[k].type = "file" /\ DirRank(entries, k) = j
      ks == {k \in 1..Len(entries) : OfRank(k)}
      RECURSIVE Collect(_)
      Collect(k) == IF k > Len(entries) THEN <<>>
                    ELSE (IF OfRank(k) THEN <<entries[k]>> ELSE <<>>) \o Collect(k + 1)
  IN Collect(1)

\* C26: in the archive a build_volume call is writing or has written, the
\* j-th directory entry is that of the j-th chapter of the batch, under a
\* name of its own; the file entries after it and before the next directory
\* entry are pictures of that chapter, under its directory, each once and
\* never before a picture the sort puts before it; no file entry comes
\* before the first directory entry; when the archive is closed, every
\* chapter has its directory entry and all of its pictures
C26_EntryOrder ==
  (pc \in {"bv_write", "bv_publish"}) =>
    LET entries == fs[staging_path_of(b.noext)].entries
        dirs == {k \in 1..Len(entries) : entries[k].type = "dir"}
        Pictures(j) == {x \in {chapter_files[b.chapters[j].path][i] :
                                 i \in 1..Len(chapter_files[b.chapters[j].path])} :
                          has_image_ext(x, opts.accept_extended_image_formats)}
    IN /\ Cardinality(dirs) <= Len(b.chapters)
       /\ \A k \in dirs, l \in dirs : k # l => entries[k].dir # entries[l].dir
       /\ \A i \in 1..Len(entries) :
            entries[i].type = "file" =>
              /\ DirRank(entries, i) >= 1
              /\ \E k \in dirs : /\ k < i
                                 /\ DirRank(entries, k) = DirRank(entries, i)
                                 /\ entries[k].dir = entries[i].dir
              /\ entries[i].source[1] = b.chapters[DirRank(entries, i)].path
       /\ \A j \in 1..Cardinality(dirs) :
            LET pages == PagesOfRank(entries, j)
            IN /\ \A x \in 1..Len(pages) : pages[x].source[2] \in Pictures(j)
               /\ \A x \in 1..Len(pages), y \in 1..Len(pages) :
                    x < y => /\ pages[x].source # pages[y].source
                             /\ sort_cmp(opts.simple_sorting, pages[x].source[2],
                                         pages[y].source[2]) # "Greater"
               /\ (j < Cardinality(dirs) \/ pc = "bv_publish") =>
                    Len(pages) = Cardinality(Pictures(j))
       /\ pc = "bv_publish" => Cardinality(dirs) = Len(b.chapters)

\* A closed archive of two chapters or more, with two pictures in one of
\* them, sorted in natural order
C26_Witness ==
  /\ pc = "bv_publish"
  /\ ~opts.simple_sorting
  /\ Len(b.chapters) >= 2
  /\ \E j \in 1..Len(b.chapters) :
       Len(PagesOfRank(fs[staging_path_of(b.noext)].entries, j)) >= 2

\* C27: with a valid configuration (1 <= start <= end where given), neither
\* of the subtractions of the range resolution, chapter_dirs.len() -
\* start_chapter (line 134) and end_chapter - start_chapter (line 142), goes
\* below zero for the directories discovered: compile does not panic there
\* and the number of chapters it sets out to treat is not a wrapped value
C27_NoUnderflow ==
  (IsCompile /\ ConfigError(opts) = "none" /\ pc \notin {"start", "dirs"}
   /\ input_kind = "dir" /\ (IsSome(opts.output) => (output_is_dir \/ opts.create_output_dir))) =>
    LET total == Discovered
        start_chapter == unwrap_or(opts.start_chapter, 1) - 1
        end_chapter == clamp_end_chapter(unwrap_or(opts.end_chapter, total), total, start_chapter)
    IN /\ ~Underflows(total, start_chapter)
       /\ end_chapter # 0 => ~Underflows(end_chapter, start_chapter)
       /\ calls = <<>> => result.kind # "Panic"
       /\ pc = "loop" => c.chapter_len <= total

\* C28: every call of build_volume by compile has 1 <= volume <= volumes,
\* the chapters it is given are numbered from 1 to at most the number of
\* directories discovered, and the numbers have no more digits than the
\* widths of the run
C28_NumbersWithinWidths ==
  IsCompile =>
    \A i \in 1..Len(calls) :
      /\ calls[i].volume >= 1
      /\ calls[i].volume <= c.volumes
      /\ Len(to_string(calls[i].volume)) <= c.vol_num_len
      /\ \A j \in 1..Len(calls[i].chapters) :
           /\ calls[i].chapters[j].chapter \in 1..Len(c.chapter_dirs)
           /\ Len(to_string(calls[i].chapters[j].chapter)) <= c.chapter_num_len

(***************************************************************************)
(* The same command run again after an interruption (src/main.rs, lines    *)
(* 17-55): the second process starts from what the first left on disk      *)
(***************************************************************************)
\* The command is run again after an interruption that left a staging file
Rerun ==
  /\ pc = "done"
  /\ result = RunKilled
  /\ fs0 = EmptyFs
  /\ RunStagingFiles # {}
  /\ fs0' = fs
  /\ pc' = "start"
  /\ c' = CompileLocals
  /\ b' = NoFrame
  /\ result' = Running
  /\ calls' = <<>>
  /\ touched' = FALSE
  /\ output_created' = FALSE
  /\ UNCHANGED <<opts, overflow_checks, input_kind, input_entries, chapter_files,
                 output_is_dir, fs, cmp, enc, wid, dec, rb>>

\* Runs without overwrite into an empty output directory
InitResume ==
  /\ opts \in {[BaseOpts EXCEPT !.method = m[1], !.chapters_per_volume = m[2],
                                !.skip_existing = sk] :
                 m \in Methods(1..ResumeMaxChapters), sk \in BOOLEAN}
            \cup {[BaseOpts EXCEPT !.method = "Single",
                                   !.output = Some(<<"o", ".", "c", "b", "z">>)]}
  /\ opts.method # "Each" => ~opts.skip_existing
  /\ overflow_checks = TRUE
  /\ input_kind = "dir"
  /\ input_entries \in {ChapterDirs(n) : n \in 1..ResumeMaxChapters}
  /\ opts.method = "Single" => input_entries = ChapterDirs(1)
  /\ output_is_dir = TRUE
  /\ fs0 = EmptyFs
  /\ InitCommon

NextResume == Next \/ Rerun

SpecResume == InitResume /\ [][NextResume]_vars

\* The run is the second one, after an interruption of the first
Resumed == fs0 # EmptyFs

\* C29: in a run started again after an interruption, without overwrite, a
\* build_volume call for a volume whose staging file was left by the
\* interrupted run, whose final path is free and under which no I/O
\* operation fails, returns Ok and leaves the finished volume at its final
\* path
C29_ResumePublishes ==
  (Resumed /\ Returned /\ ~opts.overwrite
   /\ b.noext # <<>>
   /\ Exists(fs0, staging_path_of(b.noext))
   /\ ~Exists(b.fs_at_entry, FinalPath)
   /\ b.result.err # "Io") =>
    /\ b.result.kind = "Ok"
    /\ Exists(fs, FinalPath)
    /\ fs[FinalPath].finished

(***************************************************************************)
(* decode alone, on the files of a directory                               *)
(***************************************************************************)
\* An archive of the given entries <<type, directory, name>>, the k-th file
\* holding the bytes <<"entry", k>>
ArchiveOf(entries) ==
  [kind |-> "file", origin |-> "pre", finished |-> TRUE,
   entries |-> [k \in 1..Len(entries) |->
                  [type |-> entries[k][1], dir |-> entries[k][2], name |-> entries[k][3],
                   source |-> IF entries[k][1] = "file" THEN <<"entry", k>> ELSE <<>>]]]

\* n pictures named by their rank from the last to the first, without
\* padding, in one directory
CountedArchive(n) ==
  ArchiveOf(<< <<"dir", <<"a">>, <<>> >> >>
            \o [k \in 1..n |-> <<"file", <<"a">>, to_string(n + 1 - k) \o <<".">> \o Ext_png>>])

\* Two directories out of order, pictures of several formats, a text file
\* and a file without extension
MixedArchive ==
  ArchiveOf(<< <<"dir", <<"b">>, <<>> >>,
               <<"file", <<"b">>, <<"2", ".", "p", "n", "g">> >>,
               <<"file", <<"a">>, <<"1", "0", ".", "j", "p", "g">> >>,
               <<"file", <<"a">>, NotAnImage>>,
               <<"dir", <<"a">>, <<>> >>,
               <<"file", <<"a">>, <<"9", ".", "g", "i", "f">> >>,
               <<"file", <<>>, <<"c", "o", "v", "e", "r">> >> >>)

\* The files of the directory: comics in the two ZIP formats, an archive of
\* another format, a file without extension, a truncated archive and a
\* directory
DecodeFiles ==
  [p \in {<<"m", ".", "c", "b", "z">>, <<"n", ".", "z", "i", "p">>, <<"r", ".", "r", "a", "r">>,
          <<"r">>, <<"t", ".", "z", "i", "p">>, <<"d", ".", "z", "i", "p">>}
        \cup {<<"n">> \o to_string(n) \o <<".", "c", "b", "z">> : n \in 0..DecodeMaxPages} |->
     IF p = <<"m", ".", "c", "b", "z">> THEN MixedArchive
     ELSE IF p = <<"n", ".", "z", "i", "p">> THEN CountedArchive(2)
     ELSE IF p = <<"t", ".", "z", "i", "p">> THEN [CountedArchive(1) EXCEPT !.finished = FALSE]
     ELSE IF p = <<"d", ".", "z", "i", "p">> THEN PreDir
     ELSE IF Len(p) > 1 /\ p[1] = "n"
     THEN CountedArchive(CHOOSE n \in 0..DecodeMaxPages :
                           p = <<"n">> \o to_string(n) \o <<".", "c", "b", "z">>)
     ELSE CountedArchive(1)]

\* No run of compile is in progress; decode is given one of the files
InitDecode ==
  /\ opts = BaseOpts
  /\ overflow_checks = TRUE
  /\ input_kind = "dir"
  /\ input_entries = <<>>
  /\ output_is_dir = TRUE
  /\ fs0 = DecodeFiles
  /\ chapter_files = SourceFiles
  /\ output_created = FALSE
  /\ fs = fs0
  /\ pc = "done"
  /\ c = CompileLocals
  /\ b = NoFrame
  /\ result = RunOk(<<>>)
  /\ calls = <<>>
  /\ touched = FALSE
  /\ cmp = NoCmp /\ enc = NoEncode /\ wid = NoWidths /\ rb = NoRebuild
  /\ dec \in {[NoDecode EXCEPT !.pc = "start", !.output_exists = ex, !.create_output_dir = cr,
                                !.only_extract_images = only, !.extended_image_formats = ext,
                                !.disable_nat_sort = dis] :
                 ex \in BOOLEAN, cr \in BOOLEAN, only \in BOOLEAN, ext \in BOOLEAN,
                 dis \in BOOLEAN}

NextDecode ==
  \/ DecodeStart
  \/ DecodeExtract
  \/ DecodeSort
  \/ DecodeRename
  \/ DecodeReturn
  \/ DecodeIoError

SpecDecode == InitDecode /\ [][NextDecode]_vars

\* C22: when decode fails with UnsupportedFormat, it has not created the
\* output directory
C22_UnsupportedBeforeIO ==
  (dec.pc = "done" /\ dec.result = "UnsupportedFormat") => ~dec.created_output_dir

\* The entries of the archive that decode keeps, in archive order
KeptEntries ==
  LET Kept(en) == en.type = "file" /\ (~dec.only_extract_images
                                        \/ has_image_ext(en.name, dec.extended_image_formats))
  IN SelectSeq(fs[dec.input].entries, Kept)

\* The comparison of two entries by their paths in the archive
EntryOrder(left, right) ==
  IF dec.disable_nat_sort
  THEN zip_path_cmp(<<left.dir, left.name>>, <<right.dir, right.name>>)
  ELSE zip_natural_paths_cmp(<<left.dir, left.name>>, <<right.dir, right.name>>)

\* The name of the output file of rank i among n: the rank padded with
\* zeros to the number of digits of n, then the extension of the entry
NumberedName(i, n, en) ==
  LET digits == to_string(i)
      width == Len(to_string(n))
  IN [k \in 1..(width - Len(digits)) |-> "0"] \o digits
     \o (IF LastDot(en.name) <= 1 THEN <<>>
         ELSE <<".">> \o SubSeq(en.name, LastDot(en.name) + 1, Len(en.name)))

\* C23: after a successful decode with N kept entries, the output directory
\* holds exactly N files; the file of rank i is named by i padded to the
\* digits of N with the extension of a kept entry whose bytes it holds, that
\* entry has rank i in the order of the paths (fewer than i kept entries
\* are before it, at least i are not after it), and every kept entry is in
\* one file
C23_DecodeNumbering ==
  (dec.pc = "done" /\ dec.result = "Ok") =>
    LET kept == KeptEntries
        N == Len(kept)
    IN /\ Len(dec.extracted) = N
       /\ Cardinality(DOMAIN dec.out) = N
       /\ \A i \in 1..N :
            \E k \in 1..N :
              /\ dec.extracted[i] = NumberedName(i, N, kept[k])
              /\ dec.extracted[i] \in DOMAIN dec.out
              /\ dec.out[dec.extracted[i]] = kept[k].source
              /\ Cardinality({j \in 1..N : EntryOrder(kept[j], kept[k]) = "Less"}) < i
              /\ Cardinality({j \in 1..N : EntryOrder(kept[j], kept[k]) # "Greater"}) >= i
       /\ \A k \in 1..N : \E i \in 1..N : dec.out[dec.extracted[i]] = kept[k].source

\* A decode of ten pictures or more stored from the last to the first
C23_Witness ==
  /\ dec.pc = "done" /\ dec.result = "Ok"
  /\ Len(dec.extracted) >= 10
  /\ ~dec.disable_nat_sort
  /\ dec.out[dec.extracted[1]] # fs[dec.input].entries[2].source

(***************************************************************************)
(* Round trip: compile or encode_one, then decode of an archive it wrote   *)
(***************************************************************************)
S_jpg == <<"j", "p", "g">>

\* The n pictures p1.png, p2.jpg, p3.png, ... of a chapter directory and a
\* text file, listed from the last to the first
NumberedPages(n) ==
  [i \in 1..n |-> <<"p">> \o to_string(n + 1 - i) \o <<".">>
                  \o (IF (n + 1 - i) % 2 = 1 THEN Ext_png ELSE S_jpg)]
  \o <<NotAnImage>>

RoundTripPageCounts == {0, 1, 2, RoundTripMaxPages}

InitRoundTrip ==
  /\ opts \in {[BaseOpts EXCEPT !.method = m[1], !.chapters_per_volume = m[2],
                                !.output = Some(m[3]), !.simple_sorting = ss] :
                 m \in {<<"Ranges", k, OutDir>> : k \in 1..RoundTripMaxChapters}
                       \cup {<<"Each", 1, OutDir>>, <<"Single", 1, <<"o", ".", "c", "b", "z">> >>},
                 ss \in BOOLEAN}
  /\ overflow_checks = TRUE
  /\ input_kind = "dir"
  /\ input_entries \in {ChapterDirs(n) : n \in 1..RoundTripMaxChapters}
  /\ opts.method = "Ranges" => Len(input_entries) = opts.chapters_per_volume
  /\ opts.method # "Ranges" => Len(input_entries) = 1
  /\ chapter_files \in {[d \in DOMAIN SourceFiles |->
                            IF d \in {SingleInput, ChapterCatalogue[1]} THEN NumberedPages(n1)
                            ELSE NumberedPages(n2)] :
                          n1 \in RoundTripPageCounts, n2 \in RoundTripPageCounts}
  /\ output_is_dir = TRUE
  /\ fs0 = EmptyFs
  /\ output_created = FALSE
  /\ fs = fs0
  /\ pc = "start"
  /\ c = CompileLocals
  /\ b = NoFrame
  /\ result = Running
  /\ calls = <<>>
  /\ touched = FALSE
  /\ cmp = NoCmp /\ enc = NoEncode /\ wid = NoWidths /\ rb = NoRebuild
  /\ dec \in {[NoDecode EXCEPT !.pc = "start", !.output_exists = ex, !.create_output_dir = cr,
                                !.only_extract_images = only, !.disable_nat_sort = dis] :
                 ex \in BOOLEAN, cr \in BOOLEAN, only \in BOOLEAN, dis \in BOOLEAN}

NextRoundTrip ==
  \/ Next
  \/ DecodeStart
  \/ DecodeExtract
  \/ DecodeSort
  \/ DecodeRename
  \/ DecodeReturn
  \/ DecodeIoError

SpecRoundTrip == InitRoundTrip /\ [][NextRoundTrip]_vars

\* The pictures of the chapters of a batch in encode order, as <<chapter
\* directory, file>>: the chapters in batch order, the pictures of each in an
\* order its sort can give
RECURSIVE EncodeOrders(_)
EncodeOrders(chapters) ==
  IF chapters = <<>> THEN {<<>>}
  ELSE {[i \in 1..Len(pics) |-> <<chapters[1].path, pics[i]>>] \o rest :
          pics \in chapter_pics_of(opts, chapter_files[chapters[1].path]),
          rest \in EncodeOrders(Tail(chapters))}

\* What the file entries of an archive were copied from, in archive order
RECURSIVE SourcesOf(_)
SourcesOf(entries) ==
  IF entries = <<>> THEN <<>>
  ELSE (IF entries[1].type = "file" THEN <<entries[1].source>> ELSE <<>>)
       \o SourcesOf(Tail(entries))

U16_MAX == 65535

\* tmp_dir_pages (line 52): the sub-directory of the wrapper named as the
\* input without its extension
tmp_dir_pages(input) == with_extension(input, <<>>)

\* The output path (lines 63-66)
rebuild_output(x) ==
  IF IsSome(x.output) THEN Unwrap(x.output) ELSE with_extension(x.input, Ext_cbz)

\* A rebuild that leaves an existing temporary directory as it is
keep_existing_tmp_dir(wrapper, name) == wrapper

\* Lines 57-60: the temporary directory is removed when it exists
remove_existing_tmp_dir(wrapper, name) ==
  IF wrapper.exists /\ name \in DOMAIN wrapper.dirs
  THEN [wrapper EXCEPT !.dirs = Remove(@, name)]
  ELSE wrapper

\* fs::create_dir_all of a sub-directory of the wrapper (decode.rs:48-50)
create_dir_all(wrapper, name) ==
  IF wrapper.exists /\ name \in DOMAIN wrapper.dirs THEN wrapper
  ELSE [exists |-> TRUE, dirs |-> Put(wrapper.dirs, name, EmptyFs)]

\* zip_dir_name of encode.rs (lines 189-196) outside Method::Individual
encode_zip_dir_name(volume, chapter, vol_num_len, chapter_num_len) ==
  S_Vol \o FormatPadded(volume, vol_num_len) \o S_Chapter
  \o FormatPadded(chapter, chapter_num_len)

\* name_in_zip of encode.rs (lines 206-234) outside Method::Individual
encode_name_in_zip(volume, chapter, page_nb, vol_num_len, chapter_num_len, pics_len, file) ==
  S_Vol \o FormatPadded(volume, vol_num_len) \o S_Chapter
  \o FormatPadded(chapter, chapter_num_len) \o S_Pic
  \o FormatPadded(page_nb, Len(to_string(pics_len))) \o <<".">> \o extension(file)

\* vol_num_len and chapter_num_len of encode (lines 459-463) in Method::Single
single_vol_num_len(total) == Len(to_string(ceil_div(total, U16_MAX)))

single_chapter_num_len(total) == Len(to_string(total))

\* The picture files of a directory in one of the orders the sort of build
\* can give (lines 164-183)
encode_chapter_pics(files, disable_nat_sort) ==
  OrdersOf({f \in DOMAIN files : has_image_ext(f, FALSE)}, disable_nat_sort)

\* Lines 39-66: the paths are computed and a temporary directory left by an
\* earlier rebuild is removed
RbStart ==
  /\ rb.pc = "start"
  /\ rb' = [rb EXCEPT !.pc = "dec_open",
                      !.wrapper = remove_existing_tmp_dir(@, tmp_dir_pages(rb.input))]
  /\ UNCHANGED <<compile_vars, cmp, enc, wid, dec>>

\* decode.rs:31-97 as called at lines 71-78: the output directory is created,
\* then the archive is opened
RbDecodeOpen ==
  /\ rb.pc = "dec_open"
  /\ rb' = IF ~rb.files[rb.input].finished
           THEN [rb EXCEPT !.pc = "done", !.result = "DecodingError",
                           !.wrapper = create_dir_all(@, tmp_dir_pages(rb.input))]
           ELSE [rb EXCEPT !.pc = "extract", !.i = 0, !.pages = <<>>, !.renamed = 0,
                           !.wrapper = create_dir_all(@, tmp_dir_pages(rb.input))]
  /\ UNCHANGED <<compile_vars, cmp, enc, wid, dec>>

\* decode.rs:99-138: one entry of the archive
RbExtract ==
  /\ rb.pc = "extract"
  /\ rb.i < Len(rb.files[rb.input].entries)
  /\ LET x == rb.files[rb.input].entries[rb.i + 1]
         outpath == tmp_pic_name(Len(rb.pages))
         dir == tmp_dir_pages(rb.input)
     IN rb' =
          IF x.type # "file" THEN [rb EXCEPT !.i = @ + 1]
          ELSE IF rb.only_extract_images /\ ~has_image_ext(x.name, FALSE)
          THEN [rb EXCEPT !.i = @ + 1]
          ELSE [rb EXCEPT !.i = @ + 1,
                          !.wrapper.dirs[dir] = Put(@, outpath, x.source),
                          !.pages = Append(@, [path_in_zip |-> <<x.dir, x.name>>,
                                               extracted_path |-> outpath,
                                               extension |-> extension_of(x.name)])]
  /\ UNCHANGED <<compile_vars, cmp, enc, wid, dec>>

\* decode.rs:142-153: the pages are sorted
RbSort ==
  /\ rb.pc = "extract"
  /\ rb.i = Len(rb.files[rb.input].entries)
  /\ rb' = [rb EXCEPT !.pc = "rename", !.pages = sort_pages(@, rb.disable_nat_sort)]
  /\ UNCHANGED <<compile_vars, cmp, enc, wid, dec>>

\* decode.rs:157-170: one page is renamed
RbRename ==
  /\ rb.pc = "rename"
  /\ rb.renamed < Len(rb.pages)
  /\ LET page == rb.pages[rb.renamed + 1]
         target == target_name(rb.renamed, Len(to_string(Len(rb.pages))), page.extension)
         dir == tmp_dir_pages(rb.input)
     IN rb' = [rb EXCEPT !.wrapper.dirs[dir] = Rename(@, page.extracted_path, target),
                         !.renamed = @ + 1]
  /\ UNCHANGED <<compile_vars, cmp, enc, wid, dec>>

\* decode returns (decode.rs:172, rebuild.rs:78-80): extraction is over,
\* encoding has not begun
RbDecoded ==
  /\ rb.pc = "rename"
  /\ rb.renamed = Len(rb.pages)
  /\ rb' = [rb EXCEPT !.pc = "enc_start"]
  /\ UNCHANGED <<compile_vars, cmp, enc, wid, dec>>

\* encode.rs:322-524 as called at lines 83-97, up to its call of build: the
\* sub-directories of the wrapper are the chapters, all in one volume
RbEncodeStart ==
  /\ rb.pc = "enc_start"
  /\ \E chapter_dirs \in OrdersOf(DOMAIN rb.wrapper.dirs, rb.disable_nat_sort) :
       rb' = [rb EXCEPT !.pc = "build_begin", !.chapter_dirs = chapter_dirs]
  /\ UNCHANGED <<compile_vars, cmp, enc, wid, dec>>

\* build (encode.rs:71-115): the test of the existing output file, then its
\* creation
RbBuildBegin ==
  /\ rb.pc = "build_begin"
  /\ rb' = IF ~rb.overwrite /\ Exists(rb.files, rebuild_output(rb))
           THEN [rb EXCEPT !.pc = "done", !.result = "EncodingError"]
           ELSE [rb EXCEPT !.pc = "build_write", !.ci = 1, !.in_chapter = FALSE,
                           !.files = Put(@, rebuild_output(rb), NewArchive)]
  /\ UNCHANGED <<compile_vars, cmp, enc, wid, dec>>

\* build (encode.rs:154-203): the pictures of the next chapter are listed and
\* sorted and its directory is added to the archive
RbBuildChapter ==
  /\ rb.pc = "build_write"
  /\ ~rb.in_chapter
  /\ rb.ci <= Len(rb.chapter_dirs)
  /\ LET total == Len(rb.chapter_dirs)
         name == rb.chapter_dirs[rb.ci]
         entry == [type |-> "dir",
                   dir |-> encode_zip_dir_name(1, rb.ci, single_vol_num_len(total),
                                               single_chapter_num_len(total)),
                   name |-> <<>>, source |-> <<>>]
     IN \E pics \in encode_chapter_pics(rb.wrapper.dirs[name], rb.disable_nat_sort) :
          rb' = [rb EXCEPT !.files = AppendEntry(@, rebuild_output(rb), entry),
                           !.chapter_pics = pics, !.pi = 0,
                           !.in_chapter = pics # <<>>,
                           !.ci = IF pics = <<>> THEN @ + 1 ELSE @]
  /\ UNCHANGED <<compile_vars, cmp, enc, wid, dec>>

\* build (encode.rs:209-267): the next picture of the chapter is copied into
\* the archive
RbBuildPage ==
  /\ rb.pc = "build_write"
  /\ rb.in_chapter
  /\ LET total == Len(rb.chapter_dirs)
         name == rb.chapter_dirs[rb.ci]
         file == rb.chapter_pics[rb.pi + 1]
         last == rb.pi + 1 = Len(rb.chapter_pics)
         entry == [type |-> "file",
                   dir |-> encode_zip_dir_name(1, rb.ci, single_vol_num_len(total),
                                               single_chapter_num_len(total)),
                   name |-> encode_name_in_zip(1, rb.ci, rb.pi, single_vol_num_len(total),
                                               single_chapter_num_len(total),
                                               Len(rb.chapter_pics), file),
                   source |-> rb.wrapper.dirs[name][file]]
     IN rb' = [rb EXCEPT !.files = AppendEntry(@, rebuild_output(rb), entry),
                         !.pi = @ + 1,
                         !.in_chapter = ~last,
                         !.ci = IF last THEN @ + 1 ELSE @]
  /\ UNCHANGED <<compile_vars, cmp, enc, wid, dec>>

\* build closes the archive and encode returns its one path (encode.rs:
\* 270-317, 519-535; rebuild.rs:97-99)
RbBuildFinish ==
  /\ rb.pc = "build_write"
  /\ ~rb.in_chapter
  /\ rb.ci > Len(rb.chapter_dirs)
  /\ rb' = [rb EXCEPT !.pc = "cleanup", !.files[rebuild_output(rb)].finished = TRUE]
  /\ UNCHANGED <<compile_vars, cmp, enc, wid, dec>>

\* fs::remove_dir_all of the wrapper (line 104): it is removed, or the
\* removal fails and leaves the wrapper with some of its sub-directories
remove_dir_all_outcomes(wrapper) ==
  [removed : {TRUE}, wrapper : {[exists |-> FALSE, dirs |-> EmptyFs]}]
  \cup [removed : {FALSE},
        wrapper : {[exists |-> TRUE, dirs |-> [d \in S |-> wrapper.dirs[d]]] :
                     S \in SUBSET DOMAIN wrapper.dirs}]

\* A rebuild that fails when the wrapper cannot be removed
rebuild_result_strict(removed) ==
  IF removed THEN "Ok" ELSE "FailedToRemoveTemporaryDirectory"

\* Lines 104-109: a failed removal is logged, the result is Ok either way
rebuild_result(removed) == "Ok"

\* Lines 99-109: encode has returned one path, the wrapper directory is
\* removed and the path returned
RbCleanup ==
  /\ rb.pc = "cleanup"
  /\ \E outcome \in remove_dir_all_outcomes(rb.wrapper) :
       rb' = [rb EXCEPT !.pc = "done",
                        !.result = rebuild_result(outcome.removed),
                        !.returned = IF rebuild_result(outcome.removed) = "Ok"
                                     THEN <<rebuild_output(rb)>> ELSE <<>>,
                        !.cleanup_failed = ~outcome.removed,
                        !.wrapper = outcome.wrapper]
  /\ UNCHANGED <<compile_vars, cmp, enc, wid, dec>>

\* The process is interrupted: the files stay as they are. An interruption
\* is in the window when extraction is over and encoding has not created the
\* output file, late when it has.
RbInterrupt ==
  /\ rb.pc \in {"dec_open", "extract", "rename", "enc_start", "build_begin",
                 "build_write", "cleanup"}
  /\ rb.interrupts < RebuildMaxInterrupts
  /\ rb' = [rb EXCEPT !.pc = "killed", !.interrupts = @ + 1,
                      !.in_window = @ \/ rb.pc \in {"enc_start", "build_begin"},
                      !.late = @ \/ rb.pc \in {"build_write", "cleanup"}]
  /\ UNCHANGED <<compile_vars, cmp, enc, wid, dec>>

\* rebuild is invoked again on the same input with the same options
RbReinvoke ==
  /\ rb.pc = "killed"
  /\ rb' = [rb EXCEPT !.pc = "start", !.i = 0, !.pages = <<>>, !.renamed = 0,
                      !.chapter_dirs = <<>>, !.ci = 0, !.in_chapter = FALSE,
                      !.chapter_pics = <<>>, !.pi = 0]
  /\ UNCHANGED <<compile_vars, cmp, enc, wid, dec>>

\* A comic of n pictures in one directory, with a text file, as build_volume
\* writes it in Ranges mode
ComicArchive(n) ==
  [kind |-> "file", origin |-> "pre", finished |-> TRUE,
   entries |->
     <<[type |-> "dir", dir |-> encode_zip_dir_name(1, 1, 1, 1), name |-> <<>>, source |-> <<>>]>>
     \o [i \in 1..n |->
          [type |-> "file", dir |-> encode_zip_dir_name(1, 1, 1, 1),
           name |-> encode_name_in_zip(1, 1, i - 1, 1, 1, n,
                                       <<"p", ".">> \o (IF i % 2 = 1 THEN Ext_png ELSE S_jpg)),
           source |-> <<"comic", i>>]]
     \o <<[type |-> "file", dir |-> encode_zip_dir_name(1, 1, 1, 1), name |-> NotAnImage,
           source |-> <<"comic", 0>>]>>]

\* The wrapper directory before the rebuild: absent, holding pages
\* left in the temporary directory by an earlier rebuild of another comic of
\* the same name, or holding another directory
RebuildWrappers(input) ==
  {[exists |-> FALSE, dirs |-> EmptyFs],
   [exists |-> TRUE,
    dirs |-> Put(EmptyFs, tmp_dir_pages(input),
                 Put(EmptyFs, <<"9", ".", "p", "n", "g">>, <<"other", 9>>))],
   [exists |-> TRUE,
    dirs |-> Put(EmptyFs, <<"a", "1">>,
                 Put(EmptyFs, <<"1", ".", "p", "n", "g">>, <<"other", 1>>))]}

InitRebuild ==
  /\ rb \in {[NoRebuild EXCEPT !.pc = "start", !.input = in, !.output = out,
                               !.overwrite = ow, !.only_extract_images = only,
                               !.disable_nat_sort = dis,
                               !.files = f, !.files0 = f, !.wrapper = w, !.wrapper0 = w] :
                in \in {<<"x", ".", "c", "b", "z">>, <<"x", ".", "z", "i", "p">>},
                out \in {None, Some(<<"y", ".", "c", "b", "z">>)},
                ow \in BOOLEAN, only \in BOOLEAN, dis \in BOOLEAN,
                f \in {Put(Put(EmptyFs, <<"x", ".", "c", "b", "z">>, ComicArchive(n)),
                           <<"x", ".", "z", "i", "p">>, ComicArchive(n)) : n \in 0..RebuildMaxPages}
                      \cup {Put(Put(EmptyFs, <<"x", ".", "z", "i", "p">>, ComicArchive(1)),
                                <<"y", ".", "c", "b", "z">>, ComicArchive(0))},
                w \in RebuildWrappers(<<"x", ".", "c", "b", "z">>)}
  /\ rb.input \in DOMAIN rb.files
  /\ cmp = NoCmp /\ enc = NoEncode /\ wid = NoWidths /\ dec = NoDecode
  /\ InitNoRun

RbProgress ==
  \/ RbStart
  \/ RbDecodeOpen
  \/ RbExtract
  \/ RbSort
  \/ RbRename
  \/ RbDecoded
  \/ RbEncodeStart
  \/ RbBuildBegin
  \/ RbBuildChapter
  \/ RbBuildPage
  \/ RbBuildFinish
  \/ RbCleanup
  \/ RbReinvoke

NextRebuild == RbProgress \/ RbInterrupt

SpecRebuild == InitRebuild /\ [][NextRebuild]_vars

\* The pages an uninterrupted decode of the input puts in the temporary
\* directory: the kept file entries of the archive in sorted order, by their
\* final names
RebuiltPages(x) ==
  LET entries == x.files0[x.input].entries
      Kept(en) == en.type = "file" /\ (~x.only_extract_images \/ has_image_ext(en.name, FALSE))
      kept == SelectSeq(entries, Kept)
      pages == sort_pages([k \in 1..Len(kept) |->
                             [path_in_zip |-> <<kept[k].dir, kept[k].name>>,
                              extension |-> extension_of(kept[k].name),
                              source |-> kept[k].source]],
                          x.disable_nat_sort)
      Name(k) == target_name(k - 1, Len(to_string(Len(pages))), pages[k].extension)
  IN [f \in {Name(k) : k \in 1..Len(pages)} |->
        pages[CHOOSE k \in 1..Len(pages) : Name(k) = f].source]

\* The directories an uninterrupted rebuild encodes: those of the wrapper
\* before the rebuild, the temporary directory holding the pages of the input
RebuiltDirs(x) ==
  [d \in DOMAIN x.wrapper0.dirs \cup {tmp_dir_pages(x.input)} |->
     IF d = tmp_dir_pages(x.input) THEN RebuiltPages(x) ELSE x.wrapper0.dirs[d]]

\* The entries of chapter ci of the archive, for each order of its pictures
ChapterEntries(dirs, chapter_dirs, ci, disable_nat_sort) ==
  LET total == Len(chapter_dirs)
      zip_dir == encode_zip_dir_name(1, ci, single_vol_num_len(total),
                                     single_chapter_num_len(total))
  IN {<<[type |-> "dir", dir |-> zip_dir, name |-> <<>>, source |-> <<>>]>>
      \o [p \in 1..Len(pics) |->
           [type |-> "file", dir |-> zip_dir,
            name |-> encode_name_in_zip(1, ci, p - 1, single_vol_num_len(total),
                                        single_chapter_num_len(total), Len(pics), pics[p]),
            source |-> dirs[chapter_dirs[ci]][pics[p]]]] :
      pics \in encode_chapter_pics(dirs[chapter_dirs[ci]], disable_nat_sort)}

RECURSIVE ArchivesFrom(_, _, _, _)
ArchivesFrom(dirs, chapter_dirs, ci, disable_nat_sort) ==
  IF ci > Len(chapter_dirs) THEN {<<>>}
  ELSE {first \o rest :
          first \in ChapterEntries(dirs, chapter_dirs, ci, disable_nat_sort),
          rest \in ArchivesFrom(dirs, chapter_dirs, ci + 1, disable_nat_sort)}

\* The archives an uninterrupted rebuild can write
RebuiltArchives(x) ==
  UNION {ArchivesFrom(RebuiltDirs(x), chapter_dirs, 1, x.disable_nat_sort) :
           chapter_dirs \in OrdersOf(DOMAIN RebuiltDirs(x), x.disable_nat_sort)}

\* An uninterrupted rebuild succeeds: the output file is absent or may be
\* overwritten
UninterruptedSucceeds == rb.overwrite \/ ~Exists(rb.files0, rebuild_output(rb))

\* The rebuild has returned Ok, the output is a complete archive with the
\* entries and bytes of an uninterrupted rebuild, the wrapper is removed
\* unless its removal failed
RebuiltAsUninterrupted ==
  /\ rb.pc = "done"
  /\ rb.result = "Ok"
  /\ Exists(rb.files, rebuild_output(rb))
  /\ rb.files[rebuild_output(rb)].finished
  /\ rb.files[rebuild_output(rb)].entries \in RebuiltArchives(rb)
  /\ rb.cleanup_failed \/ ~rb.wrapper.exists

\* C20: a rebuild has removed the temporary directory before it decodes, and
\* a rebuild invoked again after an interruption between extraction and
\* encoding, when an uninterrupted rebuild succeeds and no interruption came
\* after the output file was created, returns Ok with an output archive that
\* has the entries and bytes of the uninterrupted rebuild
C20_ResumesAfterInterruption ==
  /\ rb.pc = "dec_open" => ~Exists(rb.wrapper.dirs, tmp_dir_pages(rb.input))
  /\ (rb.pc = "done" /\ rb.in_window /\ ~rb.late /\ UninterruptedSucceeds)
       => RebuiltAsUninterrupted

\* A rebuild interrupted between extraction and encoding, never after, has
\* been invoked again and has ended with the archive of its pages
C20_Witness ==
  /\ rb.in_window
  /\ ~rb.late
  /\ RebuiltAsUninterrupted
  /\ Len(rb.files[rebuild_output(rb)].entries) > RebuildMaxPages

\* C21: when the removal of the wrapper directory fails after the archive
\* was rebuilt, rebuild returns Ok with exactly the path of the archive it
\* produced, a complete archive
C21_CleanupFailureIsSuccess ==
  (rb.pc = "done" /\ rb.cleanup_failed) =>
    /\ rb.result = "Ok"
    /\ rb.returned = <<rebuild_output(rb)>>
    /\ Exists(rb.files, rebuild_output(rb))
    /\ rb.files[rebuild_output(rb)].finished

\* A rebuild has returned after a failed removal that left the wrapper with
\* the directory of the pages
C21_Witness ==
  /\ rb.pc = "done"
  /\ rb.cleanup_failed
  /\ Exists(rb.wrapper.dirs, tmp_dir_pages(rb.input))
  /\ rb.returned # <<>>

(***************************************************************************)
(* rebuild_dir (src/cli/rebuild.rs, lines 113-190): every comic of a       *)
(* directory is rebuilt in turn, next to its input, with one wrapper       *)
(* directory for all of them. rb.dir tells that the rebuilds are those of  *)
(* rebuild_dir, rb.todo holds the files still to rebuild.                  *)
(***************************************************************************)
\* Lines 144-150: the files rebuild_dir takes
is_comic_file(files, p) ==
  files[p].kind = "file" /\ extension(p) \in {<<"z", "i", "p">>, Ext_cbz, <<"p", "d", "f">>}

\* Lines 135-167: the comics of the directory are listed and sorted
RbDirList ==
  /\ rb.pc = "dir_list"
  /\ \E files \in OrdersOf({p \in DOMAIN rb.files : is_comic_file(rb.files, p)}, FALSE) :
       rb' = [rb EXCEPT !.pc = "dir_next", !.todo = files, !.output_files = <<>>]
  /\ UNCHANGED <<compile_vars, cmp, enc, wid, dec>>

\* Lines 170-186: rebuild is called on the next file, its output beside it
\* with the extension cbz
RbDirNext ==
  /\ rb.pc = "dir_next"
  /\ rb.todo # <<>>
  /\ rb' = [rb EXCEPT !.pc = "start",
                      !.input = Head(rb.todo),
                      !.output = Some(with_extension(Head(rb.todo), Ext_cbz)),
                      !.todo = Tail(rb.todo),
                      !.result = "Running",
                      !.returned = <<>>]
  /\ UNCHANGED <<compile_vars, cmp, enc, wid, dec>>

\* Lines 175-186: the paths a rebuild returned are kept, an error is returned
\* at once
RbDirCollect ==
  /\ rb.pc = "done"
  /\ rb.dir
  /\ rb' = IF rb.result = "Ok"
           THEN [rb EXCEPT !.pc = "dir_next", !.output_files = @ \o rb.returned]
           ELSE [rb EXCEPT !.pc = "dir_done"]
  /\ UNCHANGED <<compile_vars, cmp, enc, wid, dec>>

\* Line 189: every file is rebuilt
RbDirFinish ==
  /\ rb.pc = "dir_next"
  /\ rb.todo = <<>>
  /\ rb' = [rb EXCEPT !.pc = "dir_done", !.result = "Ok", !.returned = rb.output_files]
  /\ UNCHANGED <<compile_vars, cmp, enc, wid, dec>>

\* A comic of n pictures whose bytes carry the name of the comic
ComicOf(tag, n) ==
  [ComicArchive(n) EXCEPT
     !.entries = [k \in 1..Len(ComicArchive(n).entries) |->
                    IF ComicArchive(n).entries[k].type = "file"
                    THEN [ComicArchive(n).entries[k] EXCEPT !.source = <<tag, @[2]>>]
                    ELSE ComicArchive(n).entries[k]]]

DirComic2 == <<"c", "2", ".", "z", "i", "p">>

DirComic10 == <<"c", "1", "0", ".", "z", "i", "p">>

DirComicCbz == <<"c", "2", ".", "c", "b", "z">>

\* The directories given to rebuild_dir: two zip comics and a text file,
\* with or without a cbz comic of the name of the first
RebuildDirs ==
  {Put(Put(Put(EmptyFs, DirComic2, ComicOf(DirComic2, n)),
           DirComic10, ComicOf(DirComic10, m)),
       NotAnImage, PreFile) : n \in 0..RebuildDirMaxPages, m \in 0..RebuildDirMaxPages}
  \cup {Put(Put(Put(EmptyFs, DirComic2, ComicOf(DirComic2, 1)),
                DirComic10, ComicOf(DirComic10, 1)),
            DirComicCbz, ComicOf(DirComicCbz, 1))}

InitRebuildDir ==
  /\ rb \in {[NoRebuild EXCEPT !.pc = "dir_list", !.dir = TRUE,
                               !.overwrite = ow, !.only_extract_images = only,
                               !.disable_nat_sort = dis,
                               !.files = f, !.files0 = f, !.wrapper = w, !.wrapper0 = w] :
                ow \in BOOLEAN, only \in BOOLEAN, dis \in BOOLEAN,
                f \in RebuildDirs, w \in RebuildWrappers(DirComic2)}
  /\ cmp = NoCmp /\ enc = NoEncode /\ wid = NoWidths /\ dec = NoDecode
  /\ InitNoRun

NextRebuildDir ==
  \/ RbDirList
  \/ RbDirNext
  \/ RbDirCollect
  \/ RbDirFinish
  \/ RbStart
  \/ RbDecodeOpen
  \/ RbExtract
  \/ RbSort
  \/ RbRename
  \/ RbDecoded
  \/ RbEncodeStart
  \/ RbBuildBegin
  \/ RbBuildChapter
  \/ RbBuildPage
  \/ RbBuildFinish
  \/ RbCleanup

SpecRebuildDir == InitRebuildDir /\ [][NextRebuildDir]_vars

\* The bytes of the file entries of an archive
PageSources(archive) ==
  {archive.entries[k].source :
     k \in {j \in 1..Len(archive.entries) : archive.entries[j].type = "file"}}

\* C30: every archive rebuild_dir has written holds only pages of a comic of
\* the directory whose output it is
C30_OwnPagesOnly ==
  rb.dir =>
    \A p \in DOMAIN rb.files :
      rb.files[p].origin = "run" =>
        \E q \in DOMAIN rb.files0 :
          /\ is_comic_file(rb.files0, q)
          /\ with_extension(q, Ext_cbz) = p
          /\ PageSources(rb.files[p]) \subseteq PageSources(rb.files0[q])

(***************************************************************************)
(* encode (src/cli/encode.rs), on the number of chapter directories: the   *)
(* chapters are counted, a volume file is known by its key                 *)
(***************************************************************************)
\* chap_per_vol (lines 324-328)
encode_chap_per_vol(cfg) ==
  CASE cfg.method = "Compile" -> cfg.k
    [] cfg.method = "Individual" -> 1
    [] cfg.method = "Single" -> U16_MAX

\* The configuration checks (lines 330-350): the error returned, or "none"
EncodeConfigError(cfg) ==
  IF encode_chap_per_vol(cfg) = 0 THEN "AtLeast1ChapterPerVolume"
  ELSE IF IsSome(cfg.start) /\ Unwrap(cfg.start) = 0 THEN "InvalidStartChapter"
  ELSE IF IsSome(cfg.end) /\ Unwrap(cfg.end) = 0 THEN "InvalidEndChapter"
  ELSE IF IsSome(cfg.start) /\ IsSome(cfg.end) /\ Unwrap(cfg.end) < Unwrap(cfg.start)
       THEN "StartChapterCannotBeHigherThanEndChapter"
  ELSE "none"

\* Range resolution (lines 465-486) over cfg.total chapter directories
EncodeRange(cfg, checks) ==
  LET start_chapter == unwrap_or(cfg.start, 1) - 1
      end_chapter0 ==
        IF cfg.method = "Single"
        THEN Min(unwrap_or(cfg.end, cfg.total), start_chapter + encode_chap_per_vol(cfg))
        ELSE unwrap_or(cfg.end, cfg.total)
      end_chapter == Min(end_chapter0, wrapping_sub(cfg.total, start_chapter))
      chapter_len == wrapping_sub(end_chapter, start_chapter)
  IN IF checks /\ Underflows(cfg.total, start_chapter) THEN [outcome |-> "panic"]
     ELSE IF end_chapter = 0 THEN [outcome |-> "empty"]
     ELSE IF checks /\ Underflows(end_chapter, start_chapter) THEN [outcome |-> "panic"]
     ELSE [outcome |-> "plan",
           start_chapter |-> start_chapter,
           end_chapter |-> end_chapter,
           chapter_len |-> chapter_len,
           volumes |-> ceil_div(chapter_len, encode_chap_per_vol(cfg))]

\* The number of items of chapter_dirs.into_iter().skip(start_chapter).take(chapter_len)
EncodeIterated(x) ==
  Min(IF x.total > x.start_chapter THEN x.total - x.start_chapter ELSE 0, x.chapter_len)

\* zip_path of build (lines 81-102): the one output file in Single mode, else
\* a file of the output directory named after the volume number (Compile) or
\* after the chapter directory (Individual), told apart by that number
zip_path_key(x) == IF x.method = "Single" THEN 0 ELSE x.volume

\* encode up to its loop: the configuration checks and the range
EncodeStart ==
  /\ enc.pc = "start"
  /\ LET err == EncodeConfigError(enc)
         r == EncodeRange(enc, overflow_checks)
     IN enc' =
          IF err # "none" THEN [enc EXCEPT !.pc = "done", !.result = err]
          ELSE IF r.outcome = "panic" THEN [enc EXCEPT !.pc = "done", !.result = "Panic"]
          ELSE IF r.outcome = "empty" THEN [enc EXCEPT !.pc = "done", !.result = "Ok"]
          ELSE [enc EXCEPT !.pc = "loop", !.start_chapter = r.start_chapter,
                           !.end_chapter = r.end_chapter, !.chapter_len = r.chapter_len,
                           !.volumes = r.volumes]
  /\ UNCHANGED <<compile_vars, cmp, wid, dec, rb>>

\* The iterations of the loop (lines 508-519) up to the next call of build:
\* chapters are pushed until the volume is full or the iteration ends
EncodeFill ==
  /\ enc.pc = "loop"
  /\ enc.taken < EncodeIterated(enc)
  /\ LET n == Min(EncodeIterated(enc) - enc.taken,
                  encode_chap_per_vol(enc) - enc.volume_chapters)
     IN enc' = [enc EXCEPT !.taken = @ + n, !.volume_chapters = @ + n,
                           !.pc = IF enc.volume_chapters + n = encode_chap_per_vol(enc)
                                  THEN "build_full" ELSE "loop"]
  /\ UNCHANGED <<compile_vars, cmp, wid, dec, rb>>

\* The end of the iteration and the test of the remaining chapters (line 522)
EncodeLoopEnd ==
  /\ enc.pc = "loop"
  /\ enc.taken = EncodeIterated(enc)
  /\ enc' = [enc EXCEPT !.pc = IF enc.volume_chapters # 0 THEN "build_tail" ELSE "finish"]
  /\ UNCHANGED <<compile_vars, cmp, wid, dec, rb>>

\* A call of build (lines 71-318) that does not fail on the file system, and
\* what encode does with its result
EncodeBuild ==
  /\ enc.pc \in {"build_full", "build_tail"}
  /\ LET key == zip_path_key(enc)
         exists == key \in enc.existing
         after == IF enc.pc = "build_tail" THEN [enc EXCEPT !.pc = "finish"]
                  ELSE [enc EXCEPT !.pc = "loop",
                                   !.volume_start_chapter = @ + enc.volume_chapters,
                                   !.volume_chapters = 0,
                                   !.volume = @ + 1]
     IN enc' =
          IF ~enc.overwrite /\ exists
          THEN IF enc.skip_existing
               THEN [after EXCEPT !.output_files = Append(@, key)]
               ELSE [enc EXCEPT !.pc = "done", !.result = "OutputFileAlreadyExists"]
          ELSE [after EXCEPT !.existing = @ \cup {key},
                             !.output_files = Append(@, key),
                             !.built = Append(@, [volume |-> enc.volume,
                                                  start_chapter |-> enc.volume_start_chapter,
                                                  chapters |-> enc.volume_chapters])]
  /\ UNCHANGED <<compile_vars, cmp, wid, dec, rb>>

\* A call of build that fails on the file system once it has passed the test
\* of the existing file
EncodeIoError ==
  /\ enc.pc \in {"build_full", "build_tail"}
  /\ enc.overwrite \/ zip_path_key(enc) \notin enc.existing
  /\ enc' = [enc EXCEPT !.pc = "done", !.result = "IoError",
                        !.existing = @ \cup {zip_path_key(enc)}]
  /\ UNCHANGED <<compile_vars, cmp, wid, dec, rb>>

\* The assertion of the single-archive mode and the return (lines 526-535)
EncodeFinish ==
  /\ enc.pc = "finish"
  /\ enc' = [enc EXCEPT !.pc = "done",
                        !.result = IF enc.method = "Single" /\ ~(Len(enc.output_files) <= 1)
                                   THEN "AssertionFailed" ELSE "Ok"]
  /\ UNCHANGED <<compile_vars, cmp, wid, dec, rb>>

EncodeOptRange == {None} \cup {Some(n) : n \in 0..EncodeMaxRange}

\* Every method with a few chapter directories
InitEncodeSmall ==
  /\ enc \in {[NoEncode EXCEPT !.pc = "start", !.method = m[1], !.k = m[2], !.start = s,
                                !.end = en, !.overwrite = ow, !.skip_existing = sk,
                                !.total = t, !.existing = ex] :
                 m \in {<<"Single", 0>>, <<"Individual", 0>>} \cup
                       {<<"Compile", k>> : k \in 0..EncodeMaxK},
                 s \in EncodeOptRange, en \in EncodeOptRange,
                 ow \in BOOLEAN, sk \in BOOLEAN,
                 t \in 0..EncodeMaxChapters, ex \in {{}, {0, 1}}}
  /\ overflow_checks \in BOOLEAN

\* The single-archive mode with about as many and twice as many chapter
\* directories as a volume can hold
InitEncodeLarge ==
  /\ enc \in {[NoEncode EXCEPT !.pc = "start", !.method = "Single", !.start = s,
                                !.end = en, !.overwrite = ow, !.skip_existing = sk,
                                !.total = t] :
                 s \in {None, Some(2), Some(U16_MAX + 3)},
                 en \in {None, Some(U16_MAX + 3), Some(2 * U16_MAX + 3)},
                 ow \in BOOLEAN, sk \in BOOLEAN,
                 t \in {U16_MAX, U16_MAX + 1, 2 * U16_MAX + 3}}
  /\ overflow_checks \in BOOLEAN

InitEncode ==
  /\ InitEncodeSmall \/ InitEncodeLarge
  /\ cmp = NoCmp /\ wid = NoWidths /\ dec = NoDecode /\ rb = NoRebuild
  /\ opts = BaseOpts
  /\ input_kind = "dir"
  /\ input_entries = <<>>
  /\ output_is_dir = TRUE
  /\ fs0 = EmptyFs
  /\ chapter_files = SourceFiles
  /\ output_created = FALSE
  /\ fs = fs0
  /\ pc = "start"
  /\ c = CompileLocals
  /\ b = NoFrame
  /\ result = Running
  /\ calls = <<>>
  /\ touched = FALSE

NextEncode ==
  \/ EncodeStart
  \/ EncodeFill
  \/ EncodeLoopEnd
  \/ EncodeBuild
  \/ EncodeIoError
  \/ EncodeFinish

SpecEncode == InitEncode /\ [][NextEncode]_vars

\* C11: in the single-archive mode encode never has more than one volume in
\* output_files, whatever the number of chapter directories and the start
\* and end chapters, and the assertion on output_files never fails
C11_SingleVolume ==
  enc.method = "Single" =>
    /\ Len(enc.output_files) <= 1
    /\ Len(enc.built) <= 1
    /\ enc.result # "AssertionFailed"

(***************************************************************************)
(* The comparators                                                         *)
(***************************************************************************)
\* a <= b for an Ordering
NotGreater(ord) == ord \in {"Less", "Equal"}

\* C12: natural_cmp is a valid comparator on the strings of digits and
\* letters, in both of its copies: a string compares Equal to itself, a pair
\* compares Less exactly when the reversed pair compares Greater, and from
\* a <= b and b <= z follows a <= z for every third string z
C12_ValidComparator ==
  cmp.done =>
    /\ cmp.left = cmp.right => cmp.natural = "Equal" /\ cmp.lib = "Equal"
    /\ cmp.natural = "Less" <=> cmp.reverse = "Greater"
    /\ cmp.lib = "Less" <=> cmp.lib_reverse = "Greater"
    /\ \A z \in CmpStrings :
         /\ NotGreater(cmp.natural) /\ NotGreater(natural_cmp(cmp.right, z))
              => NotGreater(natural_cmp(cmp.left, z))
         /\ NotGreater(cmp.lib) /\ NotGreater(lib_natural_cmp(cmp.right, z))
              => NotGreater(lib_natural_cmp(cmp.left, z))

\* Two different strings compared Less, the second Less than a third one
C12_Witness ==
  /\ cmp.done
  /\ cmp.natural = "Less" /\ cmp.reverse = "Greater" /\ cmp.lib = "Less"
  /\ \E z \in CmpStrings :
       natural_cmp(cmp.right, z) = "Less" /\ natural_cmp(cmp.left, z) = "Less"

\* The characters of str after its first k ones
DropFirst(str, k) == SubSeq(str, k + 1, Len(str))

\* The two strings agree on their first k characters and both go on with a digit
AlignedRunsAt(l, r, k) ==
  /\ k < Len(l) /\ k < Len(r)
  /\ SubSeq(l, 1, k) = SubSeq(r, 1, k)
  /\ is_ascii_digit(l[k + 1]) /\ is_ascii_digit(r[k + 1])

\* The digit run a string starts with, and its value
RECURSIVE LeadingRun(_)
LeadingRun(str) ==
  IF str # <<>> /\ is_ascii_digit(str[1]) THEN <<str[1]>> \o LeadingRun(Tail(str)) ELSE <<>>

RECURSIVE DecimalValue(_)
DecimalValue(ds) ==
  IF ds = <<>> THEN 0 ELSE 10 * DecimalValue(SubSeq(ds, 1, Len(ds) - 1)) + DigitVal(ds[Len(ds)])

RunValueAt(str, k) == DecimalValue(LeadingRun(DropFirst(str, k)))

AfterRunAt(str, k) == DropFirst(str, k + Len(LeadingRun(DropFirst(str, k))))

\* C13: when the first digit runs the two strings have at the same position
\* (after a common prefix without digits) have the same value, natural_cmp
\* returns what the comparison of the remainders after both runs gives
C13_ContinuesAfterRuns ==
  cmp.done =>
    \A k \in 0..Len(cmp.left) :
      ( /\ AlignedRunsAt(cmp.left, cmp.right, k)
        /\ \A i \in 1..k : ~is_ascii_digit(cmp.left[i])
        /\ RunValueAt(cmp.left, k) = RunValueAt(cmp.right, k) )
      => cmp.natural = natural_cmp(AfterRunAt(cmp.left, k), AfterRunAt(cmp.right, k))

\* C14: aligned digit runs are compared by value, leading zeros ignored: when
\* a common prefix is followed in both strings by digit runs of different
\* values, natural_cmp orders the strings as the two values; "Folder 2" is
\* Less than "Folder 10", which the raw comparison orders the other way
C14_NumericOrder ==
  cmp.done =>
    /\ \A k \in 0..Len(cmp.left) :
         ( /\ AlignedRunsAt(cmp.left, cmp.right, k)
           /\ k > 0 => ~is_ascii_digit(cmp.left[k])
           /\ RunValueAt(cmp.left, k) # RunValueAt(cmp.right, k) )
         => cmp.natural = OrdOf(RunValueAt(cmp.left, k), RunValueAt(cmp.right, k))
    /\ (cmp.left = S_Folder \o <<"2">> /\ cmp.right = S_Folder \o <<"1", "0">>)
         => cmp.natural = "Less" /\ cmp.raw = "Greater"

\* C15: natural_cmp ignores letter case: it returns for two strings what it
\* returns for their lowercased forms
C15_CaseInsensitive ==
  cmp.done => cmp.natural = natural_cmp(to_lowercase(cmp.left), to_lowercase(cmp.right))

=============================================================================
